---- MODULE Spec2Model ----
(***************************************************************************)
(* A model of removemark: the inpainting worker (model loading, the        *)
(* message handler, the tensor conversions) and the tool page that drives  *)
(* it.  One action is one task of the JavaScript event loop together with  *)
(* the microtasks it runs, so an async function is cut at its awaits.      *)
(***************************************************************************)
EXTENDS Integers, Sequences, FiniteSets, TLC

\* ------------------------------------------------------------------ bounds
MaxReq == 3        \* requests the page sends to its worker in one run
MaxChunks == 1     \* chunks read from the model response body
MaxFiles == 1      \* image files the user selects in one run
NumPixels == 3     \* pixels of a plane, standing for INPUT_SIZE * INPUT_SIZE
SampleLen == 2     \* values in the min/max sample, standing for 10000

\* requests an arbitrary client sends to the worker in one run
MaxEnvReq == MaxReq - 1
\* runs the usage record counts in one run
MaxCalls == MaxReq - 1

ReqIds == 1..MaxReq
AttemptIds == 1..MaxReq

\* --------------------------------------------------------------- variables
VARIABLES
  \* the channel between the page and the worker
  sent,            \* every request posted to the worker, in posting order
  dispatched,      \* how many of them self.onmessage has been called for
  outbox,          \* the responses posted and not yet handled by the page
  termLog,         \* type and request of every terminal response, in order
  workerAlive,     \* FALSE once worker.terminate() ran
  \* inpainting worker, module state
  session,         \* 0 for null, else the load attempt that built the session
  loadingPromise,  \* 0 for null, else the load attempt the promise belongs to
  attempts,        \* load attempts started so far
  loads,           \* per attempt: where its async body is suspended
  hpc,             \* per request: where its onmessage handler is suspended
  awaiting,        \* per load request: the attempt whose promise it awaits
  \* environment of the worker
  cache,           \* the record under MODEL_CACHE_KEY in the models store
  network,         \* the network requests issued so far
  isDev,           \* import.meta.env.DEV
  \* tool page (App)
  imagePreview, imageElement, maskCanvas, resultUrl, isProcessing,
  isLoadingModel, modelProgress, error, workerRef, processingResolveRef,
  files,           \* per selected file: the stage of its asynchronous decode
  usageCalls,      \* calls of recordUsage()
  usageGate,       \* what canProcess() answers
  removeCalls,     \* invocations of handleProcess, counted modulo 2
  \* createMaskedInputTensors
  mskData, imgData, maskTensorData, imageTensorData, whiteCount, blackCount,
  inIdx,
  \* tensorToImageData
  outData, minVal, maxVal, outPixels, outIdx, outPc,
  \* one call of tensorToImage or tensorToImageData
  tsFn,            \* which of the two is called
  tsMsg,           \* the caller's originalWidth and originalHeight
  tsDims,          \* tensor.dims
  tsWidth, tsHeight, \* originalWidth, originalHeight
  tsPc,            \* where the call is
  tsSurfaces,      \* the canvases created so far, by their sizes
  tsResult,        \* the size of what the call returned
  \* the inference engine
  engineRange,     \* the value range of the tensor session.run returned
  \* the mask editor, WatermarkSelector
  maskCanvasRef,   \* TRUE once the mask canvas exists
  canvasSize,      \* its width and height, those of the image
  mask,            \* the white regions of the mask canvas
  history,         \* historyRef.current, a sequence of masks
  historyIndex,    \* historyIndexRef.current, counted from 0
  isDrawing,       \* isDrawingRef.current
  isFocused,       \* isFocusedRef.current
  blurTimer,       \* the timer of touchend is pending
  brushSize, maskSize, activeTool, maskOpacity,
  lastStep,        \* the handler that ran last and what it did
  edits,           \* history pushes since the canvas was created
  evicted,         \* entries shifted out of the history since then
  trail,           \* the last handlers that ran, at most trailLen of them
  trailLen,        \* how many of them a specification logs
  \* pointer coordinates of the mask editor
  intrinsic,       \* canvas.width and canvas.height
  screenRect,      \* where the canvas is displayed now
  canvasRectRef,   \* the cached bounding rectangle, if any
  rectUpdateTime,  \* rectUpdateTimeRef.current
  clock,           \* performance.now()
  coords,          \* the last event and the point getCanvasCoords gave it
  \* the image upload component
  isDragging,      \* the dragging-over flag
  selected,        \* the files onImageSelect was called with, in order
  upLast,          \* the last handler of the component and its file list
  \* the head tags
  seoCall,         \* the last call of the SEO module: function and argument
  seoOut,          \* what it returned
  \* the redraw frame and the stroke anchor of the mask editor
  needsRedraw,     \* needsRedrawRef.current
  rafScheduled,    \* the frame callback of scheduleRedraw is pending
  lastPoint,       \* lastPointRef.current, 0 for null
  \* functions looked at alone
  fnCall,          \* the last call: function and arguments
  fnOut            \* what it returned

chanVars == <<sent, dispatched, outbox, termLog, workerAlive>>
workerVars == <<session, loadingPromise, attempts, loads, hpc, awaiting>>
envVars == <<cache, network, isDev>>
pageVars == <<imagePreview, imageElement, maskCanvas, resultUrl, isProcessing,
              isLoadingModel, modelProgress, error, workerRef,
              processingResolveRef, files, usageCalls, usageGate,
              removeCalls>>
inVars == <<mskData, imgData, maskTensorData, imageTensorData, whiteCount,
            blackCount, inIdx>>
outVars == <<outData, minVal, maxVal, outPixels, outIdx, outPc>>
shapeVars == <<tsFn, tsMsg, tsDims, tsWidth, tsHeight, tsPc, tsSurfaces, tsResult>>
editVars == <<maskCanvasRef, canvasSize, mask, history, historyIndex, edits,
              evicted>>
toolVars == <<brushSize, maskSize, activeTool, maskOpacity>>
selVars == <<editVars, toolVars, isDrawing, isFocused, blurTimer, lastStep>>
logVars == <<trail, trailLen>>
coordVars == <<intrinsic, screenRect, canvasRectRef, rectUpdateTime, clock,
               coords>>
uploadVars == <<isDragging, selected, upLast>>
seoVars == <<seoCall, seoOut>>
fnVars == <<fnCall, fnOut>>
frameVars == <<needsRedraw, rafScheduled, lastPoint>>
laterVars == <<uploadVars, seoVars, fnVars>>
moreVars == <<coordVars, laterVars, frameVars>>
auxVars == <<shapeVars, engineRange, selVars, logVars, moreVars>>
coreVars == <<chanVars, workerVars, envVars, pageVars, inVars, outVars>>
vars == <<coreVars, auxVars>>

\* ----------------------------------------------------------------- helpers
Resp(t, r, v) == [type |-> t, req |-> r, val |-> v]

Least(S) == CHOOSE x \in S : \A y \in S : x <= y

RECURSIVE AnswerAll(_, _, _)
\* One response of type t per request of S, in the order the handlers
\* registered on the promise (request order).
AnswerAll(S, t, v) ==
  IF S = {} THEN <<>>
  ELSE <<Resp(t, Least(S), v)>> \o AnswerAll(S \ {Least(S)}, t, v)

TerminalTypes ==
  {"load-complete", "load-error", "process-complete", "process-error"}

\* The positions in termLog of the terminal responses to request r.
Terminals(r) == {i \in 1..Len(termLog) : termLog[i].req = r}

Answered == {r \in ReqIds : Terminals(r) # {}}

NoLoad == [pc |-> "none", total |-> 0, loaded |-> 0, err |-> "none"]

InFlightPcs == {"cacheRead", "fetch", "read", "save", "create"}

InFlight == {k \in AttemptIds : loads[k].pc \in InFlightPcs}

\* The handlers suspended on the promise of attempt k.
Waiters(k) == {r \in ReqIds : hpc[r] = "awaitLoad" /\ awaiting[r] = k}

\* The record under the cache key: none, one with data and the expected
\* version, one of another version, one without data.
CacheStates == {"empty", "valid", "stale", "nodata"}

\* error.message of an error thrown by the browser or the inference engine.
FOREIGN == "error.message"

MODEL_URL == "/models/lama_fp32.onnx"

wasmPathsAlwaysCdn ==
  "https://cdn.jsdelivr.net/npm/onnxruntime-web@1.23.2/dist/"

\* ort.env.wasm.wasmPaths, lines 294-299.
wasmPaths ==
  IF isDev THEN "https://cdn.jsdelivr.net/npm/onnxruntime-web@1.23.2/dist/"
  ELSE "/onnxruntime-web/"

NetReq(u, b) == [method |-> "GET", url |-> u, body |-> b]

\* ------------------------------------------------------- inpainting worker
Post(rs) ==
  /\ outbox' = outbox \o rs
  /\ LET ts == SelectSeq(rs, LAMBDA m : m.type \in TerminalTypes) IN
       termLog' = termLog \o
         [i \in 1..Len(ts) |-> [type |-> ts[i].type, req |-> ts[i].req]]

NoPost == UNCHANGED <<outbox, termLog>>

Finish(S) == hpc' = [r \in ReqIds |-> IF r \in S THEN "done" ELSE hpc[r]]

LoadFailKeepsPromise(k, msg) ==
  /\ loads' = [loads EXCEPT ![k].pc = "rejected", ![k].err = msg]
  /\ Post(AnswerAll(Waiters(k), "load-error", msg))
  /\ Finish(Waiters(k))
  /\ UNCHANGED <<session, loadingPromise, attempts, awaiting>>

\* loadModel, lines 448-451 (catch), and the catch of every "load" handler
\* that awaits the rejected promise (lines 635-640).
LoadFail(k, msg) ==
  /\ loadingPromise' = 0
  /\ loads' = [loads EXCEPT ![k].pc = "rejected", ![k].err = msg]
  /\ Post(AnswerAll(Waiters(k), "load-error", msg))
  /\ Finish(Waiters(k))
  /\ UNCHANGED <<session, attempts, awaiting>>

\* loadModel, lines 444-447, and line 634 of every handler awaiting it.
LoadSucceed(k) ==
  /\ session' = k
  /\ loads' = [loads EXCEPT ![k].pc = "resolved"]
  /\ Post(AnswerAll(Waiters(k), "load-complete", "none"))
  /\ Finish(Waiters(k))
  /\ UNCHANGED <<loadingPromise, attempts, awaiting>>

loadModelUnshared(r) ==
  IF session # 0
  THEN /\ Post(<<Resp("load-complete", r, "none")>>)
       /\ Finish({r})
       /\ UNCHANGED <<session, loadingPromise, attempts, loads, awaiting>>
  ELSE /\ attempts < MaxReq
       /\ attempts' = attempts + 1
       /\ loadingPromise' = attempts + 1
       /\ loads' = [loads EXCEPT ![attempts + 1].pc = "cacheRead"]
       /\ hpc' = [hpc EXCEPT ![r] = "awaitLoad"]
       /\ awaiting' = [awaiting EXCEPT ![r] = attempts + 1]
       /\ UNCHANGED session /\ NoPost

\* loadModel as the "load" handler of request r calls and awaits it: up to
\* the first await of the handler.
loadModel(r) ==
  IF session # 0
  THEN /\ Post(<<Resp("load-complete", r, "none")>>)
       /\ Finish({r})
       /\ UNCHANGED <<session, loadingPromise, attempts, loads, awaiting>>
  ELSE IF loadingPromise # 0
  THEN /\ CASE loads[loadingPromise].pc = "resolved" ->
                 /\ Post(<<Resp("load-complete", r, "none")>>)
                 /\ Finish({r})
                 /\ UNCHANGED awaiting
            [] loads[loadingPromise].pc = "rejected" ->
                 /\ Post(<<Resp("load-error", r, loads[loadingPromise].err)>>)
                 /\ Finish({r})
                 /\ UNCHANGED awaiting
            [] OTHER ->
                 /\ hpc' = [hpc EXCEPT ![r] = "awaitLoad"]
                 /\ awaiting' = [awaiting EXCEPT ![r] = loadingPromise]
                 /\ NoPost
       /\ UNCHANGED <<session, loadingPromise, attempts, loads>>
  ELSE /\ attempts < MaxReq
       /\ attempts' = attempts + 1
       /\ loadingPromise' = attempts + 1
       /\ loads' = [loads EXCEPT ![attempts + 1].pc = "cacheRead"]
       /\ hpc' = [hpc EXCEPT ![r] = "awaitLoad"]
       /\ awaiting' = [awaiting EXCEPT ![r] = attempts + 1]
       /\ UNCHANGED session /\ NoPost

NewestEvent == Len(sent)

\* The message event the event loop delivers next: the oldest one queued.
NextEvent == dispatched + 1

\* self.onmessage, case "load".
OnMessageLoad ==
  /\ workerAlive
  /\ dispatched < Len(sent)
  /\ sent[NextEvent].type = "load"
  /\ dispatched' = dispatched + 1
  /\ loadModel(sent[NextEvent].id)
  /\ UNCHANGED <<sent, workerAlive, envVars, pageVars, inVars,
                 outVars, auxVars>>

processImageUncaught(r, ctxOk) ==
  IF session = 0
  THEN /\ Finish({r})
       /\ NoPost
  ELSE IF ~ctxOk
  THEN /\ Post(<<Resp("process-error", r, "Failed to get canvas context")>>)
       /\ Finish({r})
  ELSE /\ hpc' = [hpc EXCEPT ![r] = "bitmap1"]
       /\ NoPost

\* The start of processImage for request r: the session check and the two
\* canvas contexts of createMaskedInputTensors, up to createImageBitmap.
processImage(r, ctxOk) ==
  IF session = 0
  THEN /\ Post(<<Resp("process-error", r, "Model not loaded")>>)
       /\ Finish({r})
  ELSE IF ~ctxOk
  THEN /\ Post(<<Resp("process-error", r, "Failed to get canvas context")>>)
       /\ Finish({r})
  ELSE /\ hpc' = [hpc EXCEPT ![r] = "bitmap1"]
       /\ NoPost

\* self.onmessage, case "process".
OnMessageProcess ==
  /\ workerAlive
  /\ dispatched < Len(sent)
  /\ sent[NextEvent].type = "process"
  /\ dispatched' = dispatched + 1
  /\ \E ctxOk \in BOOLEAN : processImage(sent[NextEvent].id, ctxOk)
  /\ UNCHANGED <<sent, workerAlive, session, loadingPromise,
                 attempts, loads, awaiting, envVars, pageVars, inVars, outVars, auxVars>>

\* createImageBitmap settles (lines 470, 471); after the second the tensors
\* are built and session.run is called (line 606).
CreateImageBitmapDone(r) ==
  /\ workerAlive
  /\ hpc[r] \in {"bitmap1", "bitmap2"}
  /\ \E ok \in BOOLEAN :
       IF ok
       THEN /\ hpc' = [hpc EXCEPT ![r] = IF hpc[r] = "bitmap1" THEN "bitmap2"
                                         ELSE "run"]
            /\ NoPost
       ELSE /\ Post(<<Resp("process-error", r, FOREIGN)>>)
            /\ Finish({r})
  /\ UNCHANGED <<sent, dispatched, workerAlive, session,
                 loadingPromise, attempts, loads, awaiting, envVars, pageVars,
                 inVars, outVars, auxVars>>

RunOutcomes == {"ok", "rejected", "noOutput", "badFormat"}

\* The terminal response of the "process" handler of request r once
\* session.run settled with outcome o (lines 606-622, 652-658).
ProcessResponse(r, o) ==
  CASE o = "ok" -> Resp("process-complete", r, sent[r].img)
    [] o = "rejected" -> Resp("process-error", r, FOREIGN)
    [] o = "noOutput" ->
         Resp("process-error", r, "No output tensor received from model")
    [] OTHER -> Resp("process-error", r, "Unexpected tensor format")

SessionRunDone(r) ==
  /\ workerAlive
  /\ hpc[r] = "run"
  /\ \E o \in RunOutcomes : Post(<<ProcessResponse(r, o)>>)
  /\ Finish({r})
  /\ UNCHANGED <<sent, dispatched, workerAlive, session,
                 loadingPromise, attempts, loads, awaiting, envVars, pageVars,
                 inVars, outVars, auxVars>>

\* loadModelFromCache with the version test of line 336 left out.
CacheHitAnyVersion(ioOk) == ioOk /\ cache \in {"valid", "stale"}

\* loadModelFromCache (worker): a hit needs the open and the get to succeed
\* and a record with data and the expected version.
CacheHit(ioOk) == ioOk /\ cache = "valid"

\* How a use of IndexedDB can end: the requests succeed, a request reports
\* an error (onerror), or indexedDB.open throws, as it does where the page
\* is denied storage.
IdbOutcomes == {"ok", "error", "throws"}

\* The message of the exception indexedDB.open throws.
IDB_ERROR == "SecurityError"

\* loadModel, lines 430-435: the cache read settled.  open is called in the
\* executor of the promise (line 324), so its exception rejects the promise
\* and reaches the catch of line 448.
CacheReadDone(k) ==
  /\ workerAlive
  /\ loads[k].pc = "cacheRead"
  /\ \E o \in IdbOutcomes :
       IF o = "throws"
       THEN LoadFail(k, IDB_ERROR) /\ UNCHANGED network
       ELSE /\ IF CacheHit(o = "ok")
               THEN /\ Post(<<Resp("load-progress", 0, 100)>>)
                    /\ loads' = [loads EXCEPT ![k].pc = "create"]
                    /\ network' = network \cup {NetReq(wasmPaths, "none")}
               ELSE /\ loads' = [loads EXCEPT ![k].pc = "fetch"]
                    /\ network' = network \cup {NetReq(MODEL_URL, "none")}
                    /\ NoPost
            /\ UNCHANGED <<session, loadingPromise, attempts, hpc, awaiting>>
  /\ UNCHANGED <<sent, dispatched, workerAlive, cache, isDev,
                 pageVars, inVars, outVars, auxVars>>

FetchOutcomes == {"ok", "404", "status", "nobody", "neterr"}

FetchError(o) ==
  CASE o = "404" -> "Model file not found"
    [] o = "status" -> "Failed to fetch model"
    [] o = "nobody" -> "Response body is null"
    [] OTHER -> FOREIGN

\* downloadModel, lines 381-396: the response of fetch(MODEL_URL) arrived.
FetchDone(k) ==
  /\ workerAlive
  /\ loads[k].pc = "fetch"
  /\ \E o \in FetchOutcomes, total \in 0..MaxChunks :
       IF o = "ok"
       THEN /\ loads' = [loads EXCEPT ![k].pc = "read", ![k].total = total,
                                      ![k].loaded = 0]
            /\ UNCHANGED <<session, loadingPromise, attempts, awaiting, hpc>>
            /\ NoPost
       ELSE LoadFail(k, FetchError(o))
  /\ UNCHANGED <<sent, dispatched, workerAlive, envVars, pageVars,
                 inVars, outVars, auxVars>>

\* Math.round((loaded / total) * 100), line 408.
Percent(loaded, total) == (200 * loaded + total) \div (2 * total)

\* downloadModel, lines 400-410: reader.read() gave a chunk.
ReadChunk(k) ==
  /\ workerAlive
  /\ loads[k].pc = "read"
  /\ loads[k].loaded < MaxChunks
  /\ loads' = [loads EXCEPT ![k].loaded = @ + 1]
  /\ IF loads[k].total > 0
     THEN Post(<<Resp("load-progress", 0,
                      Percent(loads[k].loaded + 1, loads[k].total))>>)
     ELSE NoPost
  /\ UNCHANGED <<sent, dispatched, workerAlive, session,
                 loadingPromise, attempts, hpc, awaiting, envVars, pageVars,
                 inVars, outVars, auxVars>>

\* downloadModel, lines 401-402 and 412-421, then line 436: the body ended
\* and saveModelToCache is called; or the read rejected.
ReadEnd(k) ==
  /\ workerAlive
  /\ loads[k].pc = "read"
  /\ \E ok \in BOOLEAN :
       IF ok
       THEN /\ loads' = [loads EXCEPT ![k].pc = "save", ![k].total = 0,
                                      ![k].loaded = 0]
            /\ UNCHANGED <<session, loadingPromise, attempts, awaiting, hpc>>
            /\ NoPost
       ELSE LoadFail(k, FOREIGN)
  /\ UNCHANGED <<sent, dispatched, workerAlive, envVars, pageVars,
                 inVars, outVars, auxVars>>

\* saveModelToCache settled (line 436, the rejection is swallowed), then
\* InferenceSession.create is called (line 444).
SaveDone(k) ==
  /\ workerAlive
  /\ loads[k].pc = "save"
  /\ \E ok \in BOOLEAN : cache' = IF ok THEN "valid" ELSE cache
  /\ loads' = [loads EXCEPT ![k].pc = "create"]
  /\ network' = network \cup {NetReq(wasmPaths, "none")}
  /\ UNCHANGED <<sent, dispatched, outbox, termLog, workerAlive, session,
                 loadingPromise, attempts, hpc, awaiting, isDev, pageVars,
                 inVars, outVars, auxVars>>

\* InferenceSession.create settled (lines 444-451).
CreateDone(k) ==
  /\ workerAlive
  /\ loads[k].pc = "create"
  /\ \E ok \in BOOLEAN : IF ok THEN LoadSucceed(k) ELSE LoadFail(k, FOREIGN)
  /\ UNCHANGED <<sent, dispatched, workerAlive, envVars, pageVars,
                 inVars, outVars, auxVars>>

WorkerStep ==
  \/ OnMessageLoad
  \/ OnMessageProcess
  \/ \E r \in ReqIds : CreateImageBitmapDone(r)
  \/ \E r \in ReqIds : SessionRunDone(r)
  \/ \E k \in AttemptIds : CacheReadDone(k)
  \/ \E k \in AttemptIds : FetchDone(k)
  \/ \E k \in AttemptIds : ReadChunk(k)
  \/ \E k \in AttemptIds : ReadEnd(k)
  \/ \E k \in AttemptIds : SaveDone(k)
  \/ \E k \in AttemptIds : CreateDone(k)

\* ------------------------------------------------- initial states, by part
\* A request as posted; seen is how many terminal responses the worker had
\* posted when the client posted it (who waited for what).
Request(t, i, img) ==
  [type |-> t, id |-> i, img |-> img, seen |-> Cardinality(Answered)]

WorkerInit ==
  /\ dispatched = 0 /\ outbox = <<>> /\ termLog = <<>> /\ workerAlive = TRUE
  /\ session = 0 /\ loadingPromise = 0 /\ attempts = 0
  /\ loads = [k \in AttemptIds |-> NoLoad]
  /\ hpc = [r \in ReqIds |-> "idle"]
  /\ awaiting = [r \in ReqIds |-> 0]
  /\ cache \in CacheStates /\ network = {} /\ isDev \in BOOLEAN

\* The useState and useRef initial values of App.
PageState ==
  /\ imagePreview = 0 /\ imageElement = 0 /\ maskCanvas = 0
  /\ resultUrl = 0 /\ isProcessing = FALSE /\ isLoadingModel = TRUE
  /\ modelProgress = 0 /\ error = "none" /\ processingResolveRef = 0
  /\ files = [f \in 1..MaxFiles |-> "none"] /\ usageCalls = 0
  /\ removeCalls = 0

InIdle ==
  /\ mskData = <<>> /\ imgData = <<>> /\ maskTensorData = <<>>
  /\ imageTensorData = <<>> /\ whiteCount = 0 /\ blackCount = 0 /\ inIdx = 0

OutIdle ==
  /\ outData = <<>> /\ minVal = 0 /\ maxVal = 0 /\ outPixels = <<>>
  /\ outIdx = 0 /\ outPc = "idle"

ShapeIdle ==
  /\ tsFn = "none" /\ tsMsg = <<>> /\ tsDims = <<>>
  /\ tsWidth = 0 /\ tsHeight = 0
  /\ tsPc = "idle" /\ tsSurfaces = <<>> /\ tsResult = <<>>

\* A mask is the set of rectangles filled white and the set of brush dots
\* painted white; the blank mask is all black (line 466, line 560).
Blank == [rects |-> {}, dots |-> {}]

NoStep == [op |-> "none", arg |-> "", edit |-> FALSE, calls |-> 0]

\* The editor before its effects ran: the initial values of lines 239-258.
SelIdle ==
  /\ maskCanvasRef = FALSE /\ canvasSize = <<0, 0>> /\ mask = Blank
  /\ history = <<>> /\ historyIndex = -1
  /\ isDrawing = FALSE /\ isFocused = FALSE /\ blurTimer = FALSE
  /\ brushSize = 80 /\ maskSize = 7 /\ activeTool = "brush"
  /\ maskOpacity = 50
  /\ lastStep = NoStep /\ edits = 0 /\ evicted = 0

LogIdle == trail = <<>> /\ trailLen = 0

NoRect == [left |-> 0, top |-> 0, width |-> 0, height |-> 0]

\* No canvas on screen, no rectangle measured (lines 259-260).
CoordIdle ==
  /\ intrinsic = <<0, 0>> /\ screenRect = NoRect
  /\ canvasRectRef = [set |-> FALSE, rect |-> NoRect]
  /\ rectUpdateTime = 0 /\ clock = 0
  /\ coords = [at |-> "none", xn |-> 0, xd |-> 1, yn |-> 0, yd |-> 1]

\* The upload component as constructed (line 13), never used.
UploadIdle ==
  /\ isDragging = FALSE /\ selected = <<>>
  /\ upLast = [op |-> "none", files |-> <<>>]

\* No head tags computed.
SeoIdle == seoCall = [fn |-> "none", arg |-> <<>>] /\ seoOut = <<>>

\* No function called.
FnIdle == fnCall = [fn |-> "none"] /\ fnOut = <<>>

\* Lines 251-255: no anchor, no frame asked for.
FrameIdle == needsRedraw = FALSE /\ rafScheduled = FALSE /\ lastPoint = 0

LaterIdle == UploadIdle /\ SeoIdle /\ FnIdle /\ FrameIdle

MoreIdle == CoordIdle /\ LaterIdle

AuxIdle ==
  ShapeIdle /\ engineRange = "none" /\ SelIdle /\ LogIdle /\ MoreIdle

\* ---------------------------------------- the worker under any request mix
\* Some client posts a request to the worker, at any time.
EnvSend ==
  /\ Len(sent) < MaxEnvReq
  /\ \E t \in {"load", "process"} :
       sent' = Append(sent, Request(t, Len(sent) + 1, 1))
  /\ UNCHANGED <<dispatched, outbox, termLog, workerAlive, workerVars,
                 envVars, pageVars, inVars, outVars, auxVars>>

\* The worker of a production build, its cache empty or holding the model; a
\* record that is stale or without data is read as no record at all.
WorkerSpecInit ==
  /\ WorkerInit /\ isDev = FALSE /\ sent = <<>>
  /\ cache \in {"empty", "valid"}
  /\ PageState /\ workerRef = FALSE /\ usageGate = TRUE /\ InIdle /\ OutIdle
  /\ AuxIdle

WorkerNext == EnvSend \/ WorkerStep

WorkerSpec == WorkerSpecInit /\ [][WorkerNext]_vars

\* The event loop runs every queued task, and the cache, the network and the
\* inference engine settle every operation they were asked for.
WorkerFairSpec == WorkerSpec /\ WF_vars(WorkerStep)

\* ------------------------------------------- loads, whatever the cache holds
LoaderInit ==
  /\ WorkerInit /\ isDev = FALSE /\ sent = <<>>
  /\ PageState /\ workerRef = FALSE /\ usageGate = TRUE /\ InIdle /\ OutIdle
  /\ AuxIdle

\* A client posts a load request, the first or, once the last one was
\* answered, another.
EnvLoad ==
  /\ Len(sent) < MaxEnvReq
  /\ \A r \in 1..Len(sent) : hpc[r] = "done"
  /\ sent' = Append(sent, Request("load", Len(sent) + 1, 1))
  /\ UNCHANGED <<dispatched, outbox, termLog, workerAlive, workerVars,
                 envVars, pageVars, inVars, outVars, auxVars>>

LoaderNext ==
  \/ EnvLoad
  \/ OnMessageLoad
  \/ \E k \in AttemptIds : CacheReadDone(k)
  \/ \E k \in AttemptIds : FetchDone(k)
  \/ \E k \in AttemptIds : ReadChunk(k)
  \/ \E k \in AttemptIds : ReadEnd(k)
  \/ \E k \in AttemptIds : SaveDone(k)
  \/ \E k \in AttemptIds : CreateDone(k)

LoaderSpec == LoaderInit /\ [][LoaderNext]_vars

\* --------------------------------------------------------------- tool page
E_VALIDATION == "Please select an image and create a mask"
E_RATE_LIMIT == "Unable to process. Please try again."
E_NOT_READY == "Model not loaded. Please wait..."
E_LOAD == "Failed to load model"
E_PROCESSING == "Processing failed"

\* usage-tracker: canProcess() reads the gate of the usage record.
canProcess == usageGate

\* usage-tracker: recordUsage() counts the run; the record may close the gate.
recordUsage ==
  /\ usageCalls' = usageCalls + 1
  /\ usageGate' \in BOOLEAN

\* handleProcess after its awaited promise settled: lines 329-336.  The
\* resolver and rejecter of the slot belong to the pending invocation.
Settle(ok, img) ==
  IF processingResolveRef = 0
  THEN UNCHANGED <<resultUrl, error, isProcessing, processingResolveRef>>
  ELSE /\ IF ok THEN resultUrl' = img /\ UNCHANGED error
          ELSE error' = E_PROCESSING /\ UNCHANGED resultUrl
       /\ isProcessing' = FALSE
       /\ processingResolveRef' = 0

\* handleWorkerMessage, lines 213-245, with the continuation of handleProcess
\* that a resolve or reject runs in the same task.
handleWorkerMessage ==
  /\ workerRef /\ workerAlive
  /\ outbox # <<>>
  /\ outbox' = Tail(outbox)
  /\ LET m == Head(outbox) IN
       CASE m.type = "load-progress" ->
              /\ modelProgress' = m.val
              /\ UNCHANGED <<isLoadingModel, error, resultUrl, isProcessing,
                             processingResolveRef>>
         [] m.type = "load-complete" ->
              /\ isLoadingModel' = FALSE
              /\ UNCHANGED <<modelProgress, error, resultUrl, isProcessing,
                             processingResolveRef>>
         [] m.type = "load-error" ->
              /\ error' = E_LOAD
              /\ isLoadingModel' = FALSE
              /\ UNCHANGED <<modelProgress, resultUrl, isProcessing,
                             processingResolveRef>>
         [] m.type = "process-complete" ->
              /\ \E ctxOk \in BOOLEAN : Settle(ctxOk, m.val)
              /\ UNCHANGED <<modelProgress, isLoadingModel>>
         [] OTHER ->
              /\ Settle(FALSE, 0)
              /\ UNCHANGED <<modelProgress, isLoadingModel>>
  /\ UNCHANGED <<sent, dispatched, termLog, workerAlive, workerVars, envVars,
                 imagePreview, imageElement, maskCanvas, workerRef, files,
                 usageCalls, usageGate, removeCalls, inVars, outVars, auxVars>>

\* handleImageSelect, lines 259-275: up to reader.readAsDataURL.
handleImageSelect(f) ==
  /\ workerRef
  /\ files[f] = "none"
  /\ \A g \in DOMAIN files : g < f => files[g] # "none"
  /\ resultUrl' = 0
  /\ error' = "none"
  /\ files' = [files EXCEPT ![f] = "reading"]
  /\ UNCHANGED <<chanVars, workerVars, envVars, imagePreview, imageElement,
                 maskCanvas, isProcessing, isLoadingModel, modelProgress,
                 workerRef, processingResolveRef, usageCalls, usageGate,
                 removeCalls, inVars, outVars, auxVars>>

\* reader.onload, lines 264-273.
ReaderOnLoad(f) ==
  /\ workerRef
  /\ files[f] = "reading"
  /\ imagePreview' = f
  /\ files' = [files EXCEPT ![f] = "decoding"]
  /\ UNCHANGED <<chanVars, workerVars, envVars, imageElement, maskCanvas,
                 resultUrl, isProcessing, isLoadingModel, modelProgress, error,
                 workerRef, processingResolveRef, usageCalls, usageGate,
                 removeCalls, inVars, outVars, auxVars>>

\* img.onload, lines 269-271; a file that does not decode fires no onload.
ImgOnLoad(f) ==
  /\ workerRef
  /\ files[f] = "decoding"
  /\ \E ok \in BOOLEAN :
       IF ok THEN /\ imageElement' = f
                  /\ files' = [files EXCEPT ![f] = "done"]
       ELSE /\ files' = [files EXCEPT ![f] = "failed"]
            /\ UNCHANGED imageElement
  /\ UNCHANGED <<chanVars, workerVars, envVars, imagePreview, maskCanvas,
                 resultUrl, isProcessing, isLoadingModel, modelProgress, error,
                 workerRef, processingResolveRef, usageCalls, usageGate,
                 removeCalls, inVars, outVars, auxVars>>

\* handleMaskChange, lines 277-279: the selector is rendered once there is a
\* bitmap (line 491) and hands over the mask drawn over it.
handleMaskChange ==
  /\ workerRef
  /\ imageElement # 0
  /\ maskCanvas' = imageElement
  /\ UNCHANGED <<chanVars, workerVars, envVars, imagePreview, imageElement,
                 resultUrl, isProcessing, isLoadingModel, modelProgress, error,
                 workerRef, processingResolveRef, files, usageCalls, usageGate,
                 removeCalls, inVars, outVars, auxVars>>

RefusalReadyFirst ==
  IF imageElement = 0 \/ maskCanvas = 0 THEN E_VALIDATION
  ELSE IF ~workerRef \/ isLoadingModel THEN E_NOT_READY
  ELSE IF ~canProcess THEN E_RATE_LIMIT
  ELSE "none"

\* The early returns of handleProcess, lines 282-295: the error the first
\* failing check sets, "none" when all three pass.
Refusal ==
  IF imageElement = 0 \/ maskCanvas = 0 THEN E_VALIDATION
  ELSE IF ~canProcess THEN E_RATE_LIMIT
  ELSE IF ~workerRef \/ isLoadingModel THEN E_NOT_READY
  ELSE "none"

\* handleProcess, lines 281-327: up to its await.  ctxOk: both getContext
\* calls gave a context.
handleProcess(ctxOk) ==
  /\ removeCalls' = 1 - removeCalls
  /\ IF Refusal # "none"
     THEN /\ error' = Refusal
          /\ UNCHANGED <<sent, isProcessing, processingResolveRef, usageCalls,
                         usageGate>>
     ELSE /\ recordUsage
          /\ IF ctxOk
             THEN /\ isProcessing' = TRUE
                  /\ error' = "none"
                  /\ processingResolveRef' = Len(sent) + 1
                  /\ sent' = Append(sent, Request("process", Len(sent) + 1,
                                                  imageElement))
             ELSE /\ error' = E_PROCESSING
                  /\ isProcessing' = FALSE
                  /\ processingResolveRef' = 0
                  /\ UNCHANGED sent
  /\ UNCHANGED <<dispatched, outbox, termLog, workerAlive, workerVars,
                 envVars, imagePreview, imageElement, maskCanvas, resultUrl,
                 isLoadingModel, modelProgress, workerRef, files, inVars,
                 outVars, auxVars>>

ButtonDisabledWhileLoading == isLoadingModel

\* The Remove Watermark button: rendered at line 504, disabled at line 518.
ButtonRendered == imageElement # 0 /\ maskCanvas # 0

ButtonDisabled == isProcessing \/ isLoadingModel

\* A click on the Remove Watermark button.
ClickRemove ==
  /\ workerRef
  /\ ButtonRendered /\ ~ButtonDisabled
  /\ usageCalls < MaxCalls /\ Len(sent) < MaxReq
  /\ \E ctxOk \in BOOLEAN : handleProcess(ctxOk)

\* handleProcess called while no run is pending, whatever the button shows
\* and whether or not the worker still exists.
InvokeRemove ==
  /\ ~isProcessing
  /\ usageCalls < MaxCalls /\ Len(sent) < MaxReq
  /\ \E ctxOk \in BOOLEAN : handleProcess(ctxOk)

\* The cleanup of the mount effect, lines 253-256.
Unmount ==
  /\ workerRef
  /\ workerAlive' = FALSE
  /\ workerRef' = FALSE
  /\ UNCHANGED <<sent, dispatched, outbox, termLog, workerVars, envVars,
                 imagePreview, imageElement, maskCanvas, resultUrl,
                 isProcessing, isLoadingModel, modelProgress, error,
                 processingResolveRef, files, usageCalls, usageGate,
                 removeCalls, inVars, outVars, auxVars>>

UserStep ==
  \/ \E f \in 1..MaxFiles : handleImageSelect(f)
  \/ \E f \in 1..MaxFiles : ReaderOnLoad(f)
  \/ \E f \in 1..MaxFiles : ImgOnLoad(f)
  \/ handleMaskChange

\* The page once its mount effect ran (lines 247-252): the worker exists and
\* was sent the load request.
Init ==
  /\ WorkerInit /\ cache \in {"empty", "valid"}
  /\ PageState /\ workerRef = TRUE /\ usageGate \in BOOLEAN
  /\ sent = <<[type |-> "load", id |-> 1, img |-> 0, seen |-> 0]>>
  /\ InIdle /\ OutIdle /\ AuxIdle

Next == WorkerStep \/ handleWorkerMessage \/ UserStep \/ ClickRemove \/ Unmount

Spec == Init /\ [][Next]_vars

HandlerNext ==
  WorkerStep \/ handleWorkerMessage \/ UserStep \/ InvokeRemove \/ Unmount

\* The page of a production build.
HandlerInit == Init /\ isDev = FALSE

\* The page with handleProcess invoked directly while no run is pending.
HandlerSpec == HandlerInit /\ [][HandlerNext]_vars

\* ------------------------------------------------------ tensor conversions
\* A number as a fraction; the tensors hold float32 values, modelled exactly.
Rat(n, d) == [num |-> n, den |-> d]

Zero == Rat(0, 1)

One == Rat(1, 1)

\* The page and the worker at rest, while a conversion is looked at alone.
Parked ==
  /\ WorkerInit /\ cache = "empty" /\ isDev = FALSE
  /\ sent = <<>>
  /\ PageState /\ workerRef = FALSE /\ usageGate = TRUE

\* RGBA pixels of the rescaled mask and of the rescaled image.
MaskPixels ==
  {<<0, 0, 0, 255>>, <<127, 127, 127, 255>>, <<128, 128, 128, 255>>,
   <<255, 255, 255, 255>>, <<0, 255, 255, 255>>}

ImagePixels == {<<0, 0, 0, 255>>, <<255, 128, 1, 255>>, <<51, 102, 254, 0>>}

\* ImageData.data of the pixels px: four bytes per pixel, indexed from 0.
Flatten(px) == [j \in 0..(4 * NumPixels - 1) |-> px[j \div 4][(j % 4) + 1]]

maskValFrom127(red) == IF red >= 127 THEN One ELSE Zero

\* Line 489.
maskVal(red) == IF red > 127 THEN One ELSE Zero

\* createMaskedInputTensors from line 479 on: the inputs are the rescaled
\* image and mask, the tensors are fresh Float32Arrays.
TensorInInit ==
  /\ Parked /\ OutIdle /\ AuxIdle
  /\ \E m \in [0..(NumPixels - 1) -> MaskPixels],
        p \in [0..(NumPixels - 1) -> ImagePixels] :
       mskData = Flatten(m) /\ imgData = Flatten(p)
  /\ maskTensorData = [j \in 0..(NumPixels - 1) |-> Zero]
  /\ imageTensorData = [j \in 0..(3 * NumPixels - 1) |-> Zero]
  /\ whiteCount = 0 /\ blackCount = 0 /\ inIdx = 0

\* One iteration of the loop of lines 488-503.
MaskLoopStep ==
  /\ inIdx < NumPixels
  /\ LET i == inIdx
         size2 == NumPixels
         mv == maskVal(mskData[i * 4])
     IN /\ maskTensorData' = [maskTensorData EXCEPT ![i] = mv]
        /\ IF mv = One
           THEN /\ whiteCount' = whiteCount + 1
                /\ imageTensorData' =
                     [imageTensorData EXCEPT ![i] = Zero,
                                             ![i + size2] = Zero,
                                             ![i + 2 * size2] = Zero]
                /\ UNCHANGED blackCount
           ELSE /\ blackCount' = blackCount + 1
                /\ imageTensorData' =
                     [imageTensorData EXCEPT
                        ![i] = Rat(imgData[i * 4], 255),
                        ![i + size2] = Rat(imgData[i * 4 + 1], 255),
                        ![i + 2 * size2] = Rat(imgData[i * 4 + 2], 255)]
                /\ UNCHANGED whiteCount
  /\ inIdx' = inIdx + 1
  /\ UNCHANGED <<mskData, imgData, chanVars, workerVars, envVars, pageVars,
                 outVars, auxVars>>

TensorInSpec == TensorInInit /\ [][MaskLoopStep]_vars

\* Output values are counted in sixteenths, which float32 holds exactly.
Scale == 16

\* Sampled values around the thresholds -1.1, -0.1, 1.1 and 255.5.
RangeVals ==
  {-18, -17, -16, -2, -1, 0, 16, 17, 18, 4080, 4088, 4089}

\* Values of the rest of the tensor: -1, 0.5 and 300.
OtherVals == {-16, 8, 4800}

MinOf(S) == CHOOSE x \in S : \A y \in S : x <= y

MaxOf(S) == CHOOSE x \in S : \A y \in S : x >= y

\* data.slice(0, 10000), lines 617-618.
Sample ==
  {outData[j] : j \in 0..(MinOf({SampleLen, 3 * NumPixels}) - 1)}

isNormalized11Loose == 10 * minVal >= -11 * Scale /\ 10 * maxVal <= 11 * Scale

\* Lines 542-543.
isNormalized11 ==
  /\ 10 * minVal >= -11 * Scale
  /\ 10 * maxVal <= 11 * Scale
  /\ 10 * minVal < -1 * Scale

is0255 == 10 * maxVal > 11 * Scale /\ 2 * maxVal <= 511 * Scale

\* Lines 557-565: the remapping of one value.
Remap(d) ==
  IF isNormalized11 THEN Rat(d + Scale, 2 * Scale)
  ELSE IF is0255 THEN Rat(d, 255 * Scale)
  ELSE Rat(d, Scale)

\* Math.round(Math.max(0, Math.min(255, q * 255))), lines 567-569.
ToByte(q) ==
  LET n == 255 * q.num
      d == q.den
  IN IF n < 0 THEN 0
     ELSE IF n > 255 * d THEN 255
     ELSE (2 * n + d) \div (2 * d)

\* processImage at line 616: the engine returned a [1, 3, size, size] tensor.
TensorOutInit ==
  /\ Parked /\ InIdle /\ AuxIdle
  /\ \E smp \in [0..(SampleLen - 1) -> RangeVals],
        x \in OtherVals, g \in OtherVals, b \in OtherVals :
       outData = [j \in 0..(3 * NumPixels - 1) |->
                    IF j < SampleLen /\ j < NumPixels THEN smp[j]
                    ELSE IF j < NumPixels THEN x
                    ELSE IF j < 2 * NumPixels THEN g
                    ELSE b]
  /\ minVal = 0 /\ maxVal = 0
  /\ outPixels = [j \in 0..(4 * NumPixels - 1) |-> 0]
  /\ outIdx = 0 /\ outPc = "sample"

\* processImage, lines 616-622: the minimum and maximum of the sample.
SampleRange ==
  /\ outPc = "sample"
  /\ minVal' = MinOf(Sample)
  /\ maxVal' = MaxOf(Sample)
  /\ outPc' = "loop"
  /\ UNCHANGED <<outData, outPixels, outIdx, chanVars, workerVars, envVars,
                 pageVars, inVars, auxVars>>

\* One iteration of the loop of lines 552-571.
ConvertPixel ==
  /\ outPc = "loop"
  /\ outIdx < NumPixels
  /\ LET i == outIdx
         channelSize == NumPixels
     IN outPixels' =
          [outPixels EXCEPT
             ![i * 4] = ToByte(Remap(outData[i])),
             ![i * 4 + 1] = ToByte(Remap(outData[i + channelSize])),
             ![i * 4 + 2] = ToByte(Remap(outData[i + 2 * channelSize])),
             ![i * 4 + 3] = 255]
  /\ outIdx' = outIdx + 1
  /\ UNCHANGED <<outData, minVal, maxVal, outPc, chanVars, workerVars,
                 envVars, pageVars, inVars, auxVars>>

TensorOutNext == SampleRange \/ ConvertPixel

TensorOutSpec == TensorOutInit /\ [][TensorOutNext]_vars

\* ------------------------------------------- tensor to image, one call
INPUT_SIZE == 512

\* Values of the entries of tensor.dims.
DimVals == {1, 3, 256, 512}

\* tensor.dims: sequences of three or four entries.
ShapeInputs == UNION {[1..n -> DimVals] : n \in 3..4}

\* Widths and heights of the original image.
SizeVals == {0, 1, 512, 1000}

\* tensorToImage is called by the main thread, tensorToImageData by
\* processImage (line 622) with the fields of the process message (646-651).
TensorShapeInit ==
  /\ Parked /\ InIdle /\ OutIdle
  /\ tsFn \in {"tensorToImage", "tensorToImageData"}
  /\ tsDims \in ShapeInputs
  /\ \E w \in SizeVals, h \in SizeVals :
       tsMsg = [originalWidth |-> w, originalHeight |-> h]
  /\ tsWidth = 0 /\ tsHeight = 0
  /\ tsPc = "idle" /\ tsSurfaces = <<>> /\ tsResult = <<>>
  /\ engineRange = "none" /\ SelIdle /\ LogIdle /\ MoreIdle

\* The call: lines 646-651 and 622, or the caller of tensorToImage.
CallToImage ==
  /\ tsPc = "idle"
  /\ tsWidth' = tsMsg.originalWidth
  /\ tsHeight' = tsMsg.originalHeight
  /\ tsPc' = "call"
  /\ UNCHANGED <<tsFn, tsMsg, tsDims, tsSurfaces, tsResult, engineRange, selVars,
                 logVars, moreVars,
                 coreVars>>

\* Lines 57 and 530: the test that lets the call go on.
DimsAccepted ==
  ~(Len(tsDims) # 4 \/ tsDims[1] # 1 \/ tsDims[2] # 3)

\* Lines 57-59 and 530-532.
CheckDims ==
  /\ tsPc = "call"
  /\ tsPc' = IF DimsAccepted THEN "checked" ELSE "thrown"
  /\ UNCHANGED <<tsFn, tsMsg, tsDims, tsWidth, tsHeight, tsSurfaces,
                 tsResult, engineRange, selVars,
                 logVars, moreVars,
                 coreVars>>

\* Lines 61-86 and 534-573: the size x size canvas, its context, the pixel
\* loop and putImageData.  ctxOk: getContext gave a context.
FillSurface ==
  /\ tsPc = "checked"
  /\ tsSurfaces' = Append(tsSurfaces, <<INPUT_SIZE, INPUT_SIZE>>)
  /\ \E ctxOk \in BOOLEAN : tsPc' = IF ctxOk THEN "filled" ELSE "thrown"
  /\ UNCHANGED <<tsFn, tsMsg, tsDims, tsWidth, tsHeight, tsResult, engineRange, selVars,
                 logVars, moreVars,
                 coreVars>>

ResultSizeOfModel == <<INPUT_SIZE, INPUT_SIZE>>

\* The size of what lines 96 and 583 return: the result canvas as a PNG, or
\* resultCtx.getImageData(0, 0, originalWidth, originalHeight).
ResultSize == <<tsWidth, tsHeight>>

\* Lines 88-96 and 575-583: the result canvas of the original size, its
\* context, drawImage, and the return.  getImageData of an empty rectangle
\* throws; toDataURL of an empty canvas does not.
DrawResult ==
  /\ tsPc = "filled"
  /\ tsSurfaces' = Append(tsSurfaces, <<tsWidth, tsHeight>>)
  /\ \E ctxOk \in BOOLEAN :
       IF ~ctxOk \/ (tsFn = "tensorToImageData" /\ (tsWidth = 0 \/ tsHeight = 0))
       THEN tsPc' = "thrown" /\ UNCHANGED tsResult
       ELSE tsPc' = "done" /\ tsResult' = ResultSize
  /\ UNCHANGED <<tsFn, tsMsg, tsDims, tsWidth, tsHeight, engineRange, selVars,
                 logVars, moreVars,
                 coreVars>>

TensorShapeNext == CallToImage \/ CheckDims \/ FillSurface \/ DrawResult

TensorShapeSpec == TensorShapeInit /\ [][TensorShapeNext]_vars

\* ------------------------------------------------- processImage, end to end
\* Pixels of the rescaled mask and image of a whole run.
PipeMaskPixels == {<<0, 0, 0, 255>>, <<255, 255, 255, 255>>}

PipeImagePixels ==
  {<<0, 0, 0, 255>>, <<128, 128, 128, 255>>, <<255, 255, 255, 255>>}

\* The ranges tensorToImageData provides for, lines 541-543.
EngineRanges == {"0to1", "-1to1", "0to255"}

\* The byte b as a value of range g, in sixteenths.
Encode(g, b) ==
  IF g = "0to255" THEN Scale * b
  ELSE IF g = "0to1" THEN (Scale * b) \div 255
  ELSE (2 * Scale * b) \div 255 - Scale

\* The bytes range g holds in whole sixteenths.
Encodable(g, b) == g = "0to255" \/ b \in {0, 255}

\* processImage at line 596: the rescaled image and mask, fresh tensors.
PipelineInit ==
  /\ Parked /\ OutIdle /\ AuxIdle
  /\ \E m \in [0..(NumPixels - 1) -> PipeMaskPixels],
        p \in [0..(NumPixels - 1) -> PipeImagePixels] :
       mskData = Flatten(m) /\ imgData = Flatten(p)
  /\ maskTensorData = [j \in 0..(NumPixels - 1) |-> Zero]
  /\ imageTensorData = [j \in 0..(3 * NumPixels - 1) |-> Zero]
  /\ whiteCount = 0 /\ blackCount = 0 /\ inIdx = 0

\* session.run, line 608.  The model file is not part of the program; the
\* engine is taken to return, in one of the three ranges, the image tensor
\* it was fed outside the mask and values of its own inside the mask.
EngineRun ==
  /\ inIdx = NumPixels /\ outPc = "idle"
  /\ \E g \in EngineRanges, fill \in {0, 255} :
       /\ \A j \in 0..(3 * NumPixels - 1) :
            Encodable(g, (imageTensorData[j].num * 255) \div imageTensorData[j].den)
       /\ engineRange' = g
       /\ outData' =
            [j \in 0..(3 * NumPixels - 1) |->
               IF maskTensorData[j % NumPixels] = One THEN Encode(g, fill)
               ELSE Encode(g, (imageTensorData[j].num * 255)
                                \div imageTensorData[j].den)]
  /\ outPixels' = [j \in 0..(4 * NumPixels - 1) |-> 0]
  /\ outPc' = "sample"
  /\ UNCHANGED <<minVal, maxVal, outIdx, chanVars, workerVars, envVars,
                 pageVars, inVars, shapeVars, selVars, logVars,
                 moreVars>>

PipelineNext == MaskLoopStep \/ EngineRun \/ SampleRange \/ ConvertPixel

PipelineSpec == PipelineInit /\ [][PipelineNext]_vars

\* ------------------------------------------------------ the mask editor
\* WatermarkSelector of hero.tsx (lines 232-1170).  One action is one DOM
\* event or one run of the effects; the mask canvas is taken as the set of
\* regions painted white, brush dots lying clear of the preset rectangles.

\* Lines 360 and 812: the number of entries the history keeps.
HISTORY_LIMIT == 50

\* Lines 218-225.
PRESET_MASKS ==
  {"bottom-right", "bottom-left", "top-right", "top-left", "center",
   "bottom-center"}

\* Lengths are counted in two-hundredths of a pixel: the sizes are
\* hundredths of the canvas (line 423), the centring halves them (line 451).
Sub == 200

Min(a, b) == IF a < b THEN a ELSE b

\* Lines 420-458 with the centred preset put where the cornered ones are.
PresetRectCornered(position, width, height, size) ==
  LET maskW == (Sub \div 100) * width * size
      maskH == (Sub \div 100) * height * size
      padding == (Sub \div 50) * Min(width, height)
  IN [x |-> IF position \in {"bottom-left", "top-left"} THEN padding
            ELSE Sub * width - maskW - padding,
      y |-> IF position \in {"top-right", "top-left"} THEN padding
            ELSE Sub * height - maskH - padding,
      w |-> maskW, h |-> maskH]

\* Lines 420-458 with both sides of the rectangle taken from the smaller
\* side of the canvas.
PresetRectMinSide(position, width, height, size) ==
  LET maskW == (Sub \div 100) * Min(width, height) * size
      maskH == (Sub \div 100) * Min(width, height) * size
      padding == (Sub \div 50) * Min(width, height)
  IN [x |-> CASE position \in {"bottom-right", "top-right"} ->
                   Sub * width - maskW - padding
              [] position \in {"bottom-left", "top-left"} -> padding
              [] OTHER -> (Sub * width - maskW) \div 2,
      y |-> CASE position \in {"bottom-right", "bottom-left", "bottom-center"} ->
                   Sub * height - maskH - padding
              [] position \in {"top-right", "top-left"} -> padding
              [] OTHER -> (Sub * height - maskH) \div 2,
      w |-> maskW, h |-> maskH]

\* Lines 420-458 (and 577-608 on mount): the rectangle of a preset.
PresetRect(position, width, height, size) ==
  LET maskW == (Sub \div 100) * width * size
      maskH == (Sub \div 100) * height * size
      padding == (Sub \div 50) * Min(width, height)
  IN [x |-> CASE position \in {"bottom-right", "top-right"} ->
                   Sub * width - maskW - padding
              [] position \in {"bottom-left", "top-left"} -> padding
              [] OTHER -> (Sub * width - maskW) \div 2,
      y |-> CASE position \in {"bottom-right", "bottom-left", "bottom-center"} ->
                   Sub * height - maskH - padding
              [] position \in {"top-right", "top-left"} -> padding
              [] OTHER -> (Sub * height - maskH) \div 2,
      w |-> maskW, h |-> maskH]

\* Lines 357-359 without the shift of line 360.
PushUncapped(h, i, m) == Append(SubSeq(h, 1, i + 1), m)

\* A push that keeps the entries past the cursor.
PushKeepsRedo(h, i, m) ==
  LET newHistory == Append(h, m)
  IN IF Len(newHistory) > HISTORY_LIMIT THEN Tail(newHistory) ELSE newHistory

\* Lines 357-360 and 809-812: slice, push, shift.
PushHistory(h, i, m) ==
  LET newHistory == Append(SubSeq(h, 1, i + 1), m)
  IN IF Len(newHistory) > HISTORY_LIMIT THEN Tail(newHistory) ELSE newHistory

\* saveToHistory, lines 347-367: the mask as it is now goes into the history.
saveToHistory ==
  /\ history' = PushHistory(history, historyIndex, mask)
  /\ historyIndex' = Min(Len(history') - 1, HISTORY_LIMIT - 1)
  /\ evicted' = evicted + (historyIndex + 2 - Len(history'))
  /\ edits' = edits + 1

\* saveHistoryState, lines 800-816: the same on the refs.
saveHistoryState ==
  /\ history' = PushHistory(history, historyIndex, mask)
  /\ historyIndex' = Min(Len(history') - 1, HISTORY_LIMIT - 1)
  /\ evicted' = evicted + (historyIndex + 2 - Len(history'))
  /\ edits' = edits + 1

\* What a handler did: whether it committed an edit of the mask, and how
\* often it called onMaskChange.
Step(op, edit, calls) ==
  [op |-> op, arg |-> "", edit |-> edit, calls |-> calls]

Rest == <<coreVars, shapeVars, engineRange, trailLen, coordVars, laterVars>>
Others == <<Rest, frameVars>>
focusVars == <<isFocused, blurTimer>>

LastOf(n, t) == IF Len(t) > n THEN SubSeq(t, Len(t) - n + 1, Len(t)) ELSE t

\* The log of handlers: what ran, on which mask, and the mask it left.
Log ==
  trail' = LastOf(trailLen, Append(trail, [op |-> lastStep'.op,
                                           arg |-> lastStep'.arg,
                                           before |-> mask,
                                           after |-> mask']))

\* The mount effect with line 613 left out: the preset is drawn, the history
\* keeps the blank mask only.
MountUnseeded(img, initialPreset) ==
  /\ maskCanvasRef' = TRUE
  /\ canvasSize' = img
  /\ mask' = [rects |-> {PresetRect(initialPreset, img[1], img[2], 7)},
              dots |-> {}]
  /\ history' = <<Blank>>
  /\ historyIndex' = 0
  /\ edits' = 0 /\ evicted' = 0
  /\ lastStep' = Step("mount", TRUE, 2)
  /\ UNCHANGED <<toolVars, isDrawing, focusVars, Rest>>
  /\ rafScheduled' = FALSE /\ UNCHANGED <<needsRedraw, lastPoint>>
  /\ Log

\* The effects of lines 540-964 after a render with a new image: the mount
\* effect calls onMaskChange at line 910, the effect of line 962 calls
\* redrawCanvas, which calls it again (line 344).
Mount(img, initialPreset) ==
  /\ maskCanvasRef' = TRUE
  /\ canvasSize' = img
  /\ mask' = [rects |-> {PresetRect(initialPreset, img[1], img[2], 7)},
              dots |-> {}]
  /\ history' = <<Blank, mask'>>
  /\ historyIndex' = 1
  /\ edits' = 0 /\ evicted' = 0
  /\ lastStep' = Step("mount", TRUE, 2)
  /\ UNCHANGED <<toolVars, isDrawing, focusVars, Rest>>
  /\ rafScheduled' = FALSE /\ UNCHANGED <<needsRedraw, lastPoint>>
  /\ Log

\* applyPresetMask, lines 410-463.
applyPresetMask(position) ==
  /\ maskCanvasRef
  /\ saveToHistory
  /\ mask' = [mask EXCEPT !.rects =
                @ \cup {PresetRect(position, canvasSize[1], canvasSize[2],
                                   maskSize)}]
  /\ lastStep' = [Step("preset", TRUE, 1) EXCEPT !.arg = position]
  /\ UNCHANGED <<maskCanvasRef, canvasSize, toolVars, isDrawing, focusVars,
                 Others>>
  /\ Log

\* clearMask, lines 465-478.
clearMask ==
  /\ maskCanvasRef
  /\ saveToHistory
  /\ mask' = Blank
  /\ lastStep' = Step("clear", TRUE, 1)
  /\ UNCHANGED <<maskCanvasRef, canvasSize, toolVars, isDrawing, focusVars,
                 Others>>
  /\ Log

\* undo with the redraw ahead of the test of line 371.
undoRedrawsFirst ==
  /\ IF historyIndex <= 0 \/ ~maskCanvasRef
       THEN /\ lastStep' = Step("undo", FALSE, 1)
            /\ UNCHANGED <<mask, historyIndex>>
       ELSE /\ mask' = history[historyIndex]
            /\ historyIndex' = historyIndex - 1
            /\ lastStep' = Step("undo", TRUE, 1)
  /\ UNCHANGED <<maskCanvasRef, canvasSize, history, edits, evicted>>

\* undo, lines 369-387.
undo ==
  /\ IF historyIndex <= 0 \/ ~maskCanvasRef
       THEN /\ lastStep' = Step("undo", FALSE, 0)
            /\ UNCHANGED <<mask, historyIndex>>
       ELSE /\ mask' = history[historyIndex]
            /\ historyIndex' = historyIndex - 1
            /\ lastStep' = Step("undo", TRUE, 1)
  /\ UNCHANGED <<maskCanvasRef, canvasSize, history, edits, evicted>>

\* redo, lines 389-408.
redo ==
  /\ IF historyIndex >= Len(history) - 1 \/ ~maskCanvasRef
       THEN /\ lastStep' = Step("redo", FALSE, 0)
            /\ UNCHANGED <<mask, historyIndex>>
       ELSE /\ mask' = history[historyIndex + 2]
            /\ historyIndex' = historyIndex + 1
            /\ lastStep' = Step("redo", TRUE, 1)
  /\ UNCHANGED <<maskCanvasRef, canvasSize, history, edits, evicted>>

\* Lines 966-967, 1026-1028 and 1050-1052: the buttons, disabled at the ends.
canUndo == historyIndex > 0
canRedo == historyIndex < Len(history) - 1

UndoButton ==
  /\ maskCanvasRef /\ canUndo /\ undo
  /\ UNCHANGED <<toolVars, isDrawing, focusVars, Others>>
  /\ Log

RedoButton ==
  /\ maskCanvasRef /\ canRedo /\ redo
  /\ UNCHANGED <<toolVars, isDrawing, focusVars, Others>>
  /\ Log

Keys == {"[", "]", "b", "e", "z", "Z"}

\* handleKeyDown, lines 504-531; "Z" is z with the shift key, both with ctrl.
handleKeyDown(key) ==
  /\ maskCanvasRef
  /\ IF ~isFocused
       THEN /\ lastStep' = Step("key", FALSE, 0)
            /\ UNCHANGED <<editVars, toolVars>>
       ELSE CASE key = "[" ->
                   /\ brushSize' = IF brushSize - 5 < 5 THEN 5 ELSE brushSize - 5
                   /\ lastStep' = Step("key", FALSE, 0)
                   /\ UNCHANGED <<editVars, maskSize, activeTool, maskOpacity>>
              [] key = "]" ->
                   /\ brushSize' = Min(100, brushSize + 5)
                   /\ lastStep' = Step("key", FALSE, 0)
                   /\ UNCHANGED <<editVars, maskSize, activeTool, maskOpacity>>
              [] key = "b" ->
                   /\ activeTool' = "brush"
                   /\ lastStep' = Step("key", FALSE, 0)
                   /\ UNCHANGED <<editVars, brushSize, maskSize, maskOpacity>>
              [] key = "e" ->
                   /\ activeTool' = "eraser"
                   /\ lastStep' = Step("key", FALSE, 0)
                   /\ UNCHANGED <<editVars, brushSize, maskSize, maskOpacity>>
              [] key = "z" -> undo /\ UNCHANGED toolVars
              [] OTHER -> redo /\ UNCHANGED toolVars
  /\ UNCHANGED <<isDrawing, focusVars, Others>>
  /\ Log

\* The sliders and tool buttons, lines 977, 1001, 1087, 1107, 1135.
setBrushSize(v) ==
  /\ maskCanvasRef
  /\ brushSize' = v
  /\ lastStep' = Step("set", FALSE, 0)
  /\ UNCHANGED <<editVars, maskSize, activeTool, maskOpacity, isDrawing,
                 focusVars, Others>>
  /\ Log

\* The quick-mask size slider taken to redraw the preset at its new size.
setMaskSizeRedraws(v) ==
  /\ maskCanvasRef
  /\ maskSize' = v
  /\ mask' = [mask EXCEPT !.rects =
                {PresetRect("bottom-right", canvasSize[1], canvasSize[2], v)}]
  /\ lastStep' = Step("set", FALSE, 0)
  /\ UNCHANGED <<maskCanvasRef, canvasSize, history, historyIndex, edits,
                 evicted, brushSize, activeTool, maskOpacity, isDrawing,
                 focusVars, Others>>
  /\ Log

setMaskSize(v) ==
  /\ maskCanvasRef
  /\ maskSize' = v
  /\ lastStep' = Step("set", FALSE, 0)
  /\ UNCHANGED <<editVars, brushSize, activeTool, maskOpacity, isDrawing,
                 focusVars, Others>>
  /\ Log

setActiveTool(t) ==
  /\ maskCanvasRef
  /\ activeTool' = t
  /\ lastStep' = Step("set", FALSE, 0)
  /\ UNCHANGED <<editVars, brushSize, maskSize, maskOpacity, isDrawing,
                 focusVars, Others>>
  /\ Log

setMaskOpacity(v) ==
  /\ maskCanvasRef
  /\ maskOpacity' = v
  /\ lastStep' = Step("set", FALSE, 0)
  /\ UNCHANGED <<editVars, brushSize, maskSize, activeTool, isDrawing,
                 focusVars, Others>>
  /\ Log

\* scheduleRedraw, lines 726-730: one frame callback at a time.
scheduleRedraw ==
  IF needsRedraw THEN UNCHANGED <<needsRedraw, rafScheduled>>
  ELSE needsRedraw' = TRUE /\ rafScheduled' = TRUE

\* The frame callback of lines 730-777 runs: the visible canvas is redrawn.
RedrawFrame ==
  /\ rafScheduled
  /\ rafScheduled' = FALSE
  /\ needsRedraw' = FALSE
  /\ UNCHANGED <<lastPoint, selVars, logVars, Rest>>

\* drawAt, lines 780-798: the brush paints white, the eraser black.
drawAt(cell) ==
  IF activeTool = "brush" THEN [mask EXCEPT !.dots = @ \cup {cell}]
  ELSE [mask EXCEPT !.dots = @ \ {cell}]

\* handleMouseDown, lines 825-833.
handleMouseDown(cell) ==
  /\ maskCanvasRef
  /\ saveHistoryState
  /\ isDrawing' = TRUE
  /\ mask' = drawAt(cell)
  /\ lastStep' = Step("mousedown", FALSE, 0)
  /\ UNCHANGED <<maskCanvasRef, canvasSize, toolVars, focusVars, Rest>>
  /\ lastPoint' = cell /\ scheduleRedraw
  /\ Log

\* handleTouchStart, lines 865-876, and the listener of line 490.
handleTouchStart(cell) ==
  /\ maskCanvasRef
  /\ saveHistoryState
  /\ isDrawing' = TRUE
  /\ isFocused' = TRUE
  /\ mask' = drawAt(cell)
  /\ lastStep' = Step("touchstart", FALSE, 0)
  /\ UNCHANGED <<maskCanvasRef, canvasSize, toolVars, blurTimer, Rest>>
  /\ lastPoint' = cell /\ scheduleRedraw
  /\ Log

\* handleMouseMove and handleTouchMove, lines 835-843 and 878-888.
handleMove(cell) ==
  /\ maskCanvasRef
  /\ mask' = IF isDrawing THEN drawAt(cell) ELSE mask
  /\ lastStep' = Step("move", FALSE, 0)
  /\ UNCHANGED <<maskCanvasRef, canvasSize, history, historyIndex, edits,
                 evicted, toolVars, isDrawing, focusVars, Rest>>
  /\ IF isDrawing THEN lastPoint' = cell /\ scheduleRedraw
     ELSE UNCHANGED frameVars
  /\ Log

\* handleMouseUp, lines 845-854.
handleMouseUp ==
  /\ maskCanvasRef
  /\ isDrawing' = FALSE
  /\ lastStep' = IF isDrawing THEN Step("mouseup", TRUE, 1)
                 ELSE Step("mouseup", FALSE, 0)
  /\ UNCHANGED <<editVars, toolVars, focusVars, Rest>>
  /\ lastPoint' = IF isDrawing THEN 0 ELSE lastPoint
  /\ UNCHANGED <<needsRedraw, rafScheduled>>
  /\ Log

\* handleTouchEnd, lines 890-900; the listener of lines 493-497 sets a
\* timer of 100 ms.
handleTouchEnd ==
  /\ maskCanvasRef
  /\ isDrawing' = FALSE
  /\ blurTimer' = TRUE
  /\ lastStep' = IF isDrawing THEN Step("touchend", TRUE, 1)
                 ELSE Step("touchend", FALSE, 0)
  /\ UNCHANGED <<editVars, toolVars, isFocused, Rest>>
  /\ lastPoint' = IF isDrawing THEN 0 ELSE lastPoint
  /\ UNCHANGED <<needsRedraw, rafScheduled>>
  /\ Log

\* The timer of lines 494-496 fires.
FocusTimeout ==
  /\ blurTimer
  /\ blurTimer' = FALSE
  /\ isFocused' = FALSE
  /\ lastStep' = Step("timeout", FALSE, 0)
  /\ UNCHANGED <<editVars, toolVars, isDrawing, Others>>
  /\ Log

\* The listener of line 484.
handleMouseEnter ==
  /\ maskCanvasRef
  /\ isFocused' = TRUE
  /\ lastStep' = Step("mouseenter", FALSE, 0)
  /\ UNCHANGED <<editVars, toolVars, isDrawing, blurTimer, Others>>
  /\ Log

\* handleMouseLeave, lines 856-863, and the listener of line 487: a stroke
\* under way is committed, onMaskChange is not called.
handleMouseLeave ==
  /\ maskCanvasRef
  /\ isDrawing' = FALSE
  /\ isFocused' = FALSE
  /\ lastStep' = Step("mouseleave", isDrawing, 0)
  /\ UNCHANGED <<editVars, toolVars, blurTimer, Rest>>
  /\ lastPoint' = 0
  /\ UNCHANGED <<needsRedraw, rafScheduled>>
  /\ Log

\* ------------------------------------------- the editor under any events
MaxEdits == 2

\* The places a brush dot can go.
Cells == {1}
SelImages == {<<800, 600>>}
SelPresets == {"center"}
BrushSizes == {80, 85}
MaskSizes == {7, 40}
Opacities == {50, 100}

SelectorInit == Parked /\ InIdle /\ OutIdle /\ AuxIdle

\* index.tsx line 499 passes no initialPreset: the default of line 232.
SelectorNext ==
  \/ \E img \in SelImages : Mount(img, "bottom-right")
  \/ edits < MaxEdits /\ \E position \in SelPresets : applyPresetMask(position)
  \/ edits < MaxEdits /\ clearMask
  \/ UndoButton
  \/ RedoButton
  \/ \E key \in {"b", "e", "z", "Z"} : handleKeyDown(key)
  \/ edits < MaxEdits /\ \E cell \in Cells : handleMouseDown(cell)
  \/ edits < MaxEdits /\ \E cell \in Cells : handleTouchStart(cell)
  \/ \E cell \in Cells : handleMove(cell)
  \/ handleMouseUp
  \/ handleTouchEnd
  \/ FocusTimeout
  \/ handleMouseEnter
  \/ handleMouseLeave

SelectorSpec == SelectorInit /\ [][SelectorNext]_vars

\* ------------------------------------------ the editor's settings in use
ToolNext ==
  \/ \E img \in SelImages : Mount(img, "bottom-right")
  \/ edits < MaxEdits /\ \E position \in SelPresets : applyPresetMask(position)
  \/ UndoButton
  \/ \E key \in Keys : handleKeyDown(key) /\ brushSize' \in BrushSizes
  \/ \E v \in BrushSizes : setBrushSize(v)
  \/ \E v \in MaskSizes : setMaskSize(v)
  \/ \E t \in {"brush", "eraser"} : setActiveTool(t)
  \/ \E v \in Opacities : setMaskOpacity(v)
  \/ handleMouseEnter

ToolSpec == SelectorInit /\ [][ToolNext]_vars

\* --------------------------------------------- presets, undo and redo
TrailLen == 3

HistPresets == {"bottom-right", "center"}

HistoryInit ==
  /\ Parked /\ InIdle /\ OutIdle /\ ShapeIdle /\ engineRange = "none"
  /\ SelIdle /\ trail = <<>> /\ trailLen = TrailLen /\ MoreIdle

HistoryNext ==
  \/ \E img \in SelImages : Mount(img, "bottom-right")
  \/ edits < MaxEdits /\ \E position \in HistPresets : applyPresetMask(position)
  \/ edits < MaxEdits /\ clearMask
  \/ UndoButton
  \/ RedoButton

HistorySpec == HistoryInit /\ [][HistoryNext]_vars

\* ------------------------------------------------ one stroke after another
MaxStrokes == 60

\* Stroke n puts its dot at place n: no two strokes leave the same mask.
StrokeNext ==
  \/ ~maskCanvasRef /\ \E img \in SelImages : Mount(img, "bottom-right")
  \/ edits < MaxStrokes /\ ~isDrawing /\ handleMouseDown(edits + 1)
  \/ edits < MaxStrokes /\ ~isDrawing /\ handleTouchStart(edits + 1)
  \/ isDrawing /\ handleMouseUp
  \/ isDrawing /\ handleTouchEnd
  \/ isDrawing /\ handleMouseLeave
  \/ FocusTimeout

StrokeSpec == SelectorInit /\ [][StrokeNext]_vars

\* ------------------------------------------------------- preset geometry
\* Lines 1132-1133: the range of the quick-mask size slider.
MASK_SIZE_MIN == 5
MASK_SIZE_MAX == 40

GeomSides == {1, 7, 512, 1000}

GeometryNext ==
  \/ \E w \in GeomSides, h \in GeomSides : Mount(<<w, h>>, "bottom-right")
  \/ edits = 0 /\ \E v \in MASK_SIZE_MIN..MASK_SIZE_MAX : setMaskSize(v)
  \/ edits = 0 /\ \E position \in PRESET_MASKS : applyPresetMask(position)

GeometrySpec == SelectorInit /\ [][GeometryNext]_vars

\* ------------------------------------------------- pointer coordinates
\* getCanvasRect and getCanvasCoords of hero.tsx (lines 639-667).  Points are
\* kept as fractions: xn / xd and yn / yd.

\* Line 641: how long a measured rectangle is used, in ms.
RECT_MAX_AGE == 100

MaxClock == 150

Places == {<<0, 0>>, <<10, 50>>}
Shown == {<<400, 300>>, <<1000, 900>>}
Corners == {"top-left", "bottom-right"}

CoordInit ==
  /\ Parked /\ InIdle /\ OutIdle /\ ShapeIdle /\ engineRange = "none"
  /\ SelIdle /\ LogIdle /\ LaterIdle
  /\ intrinsic = <<800, 600>>
  /\ \E at \in Places, s \in Shown :
       screenRect = [left |-> at[1], top |-> at[2], width |-> s[1],
                     height |-> s[2]]
  /\ canvasRectRef = [set |-> FALSE, rect |-> NoRect]
  /\ rectUpdateTime = 0 /\ clock = 0
  /\ coords = [at |-> "none", xn |-> 0, xd |-> 1, yn |-> 0, yd |-> 1]

CoordRest ==
  <<coreVars, shapeVars, engineRange, selVars, logVars, laterVars, frameVars>>

\* Time passes.
Tick(d) ==
  /\ clock + d <= MaxClock
  /\ clock' = clock + d
  /\ UNCHANGED <<intrinsic, screenRect, canvasRectRef, rectUpdateTime, coords,
                 CoordRest>>

\* The page scrolls or its layout shifts: the canvas is elsewhere on the
\* screen.  No listener of the component runs.
MoveCanvas(at) ==
  /\ screenRect' = [screenRect EXCEPT !.left = at[1], !.top = at[2]]
  /\ UNCHANGED <<intrinsic, canvasRectRef, rectUpdateTime, clock, coords,
                 CoordRest>>

\* The canvas is displayed at another size: handleResize or the
\* ResizeObserver runs invalidateRect (lines 635-637, 648-656).
ResizeCanvas(s) ==
  /\ screenRect' = [screenRect EXCEPT !.width = s[1], !.height = s[2]]
  /\ canvasRectRef' = [set |-> FALSE, rect |-> NoRect]
  /\ UNCHANGED <<intrinsic, rectUpdateTime, clock, coords, CoordRest>>

\* getCanvasRect, lines 639-646: whether the rectangle is measured anew.
Remeasure == ~canvasRectRef.set \/ clock - rectUpdateTime > RECT_MAX_AGE

\* getCanvasCoords, lines 658-667, for an event at a displayed corner.
getCanvasCoords(corner) ==
  LET clientX == IF corner = "top-left" THEN screenRect.left
                 ELSE screenRect.left + screenRect.width
      clientY == IF corner = "top-left" THEN screenRect.top
                 ELSE screenRect.top + screenRect.height
      rect == IF Remeasure THEN screenRect ELSE canvasRectRef.rect
  IN /\ canvasRectRef' = [set |-> TRUE, rect |-> rect]
     /\ rectUpdateTime' = IF Remeasure THEN clock ELSE rectUpdateTime
     /\ coords' = [at |-> corner,
                   xn |-> (clientX - rect.left) * intrinsic[1],
                   xd |-> rect.width,
                   yn |-> (clientY - rect.top) * intrinsic[2],
                   yd |-> rect.height]
     /\ UNCHANGED <<intrinsic, screenRect, clock, CoordRest>>

CoordNext ==
  \/ \E d \in {RECT_MAX_AGE \div 2, RECT_MAX_AGE \div 2 + 1} : Tick(d)
  \/ \E at \in Places : MoveCanvas(at)
  \/ \E s \in Shown : ResizeCanvas(s)
  \/ \E corner \in Corners : getCanvasCoords(corner)

CoordSpec == CoordInit /\ [][CoordNext]_vars


\* --------------------------------------------------- image upload component
\* components/watermark-remover/image-upload.tsx.  A string is the sequence
\* of its characters.
IMAGE_PREFIX == <<"i", "m", "a", "g", "e", "/">>

\* String.prototype.startsWith.
startsWith(s, prefix) ==
  /\ Len(s) >= Len(prefix)
  /\ SubSeq(s, 1, Len(prefix)) = prefix

\* The MIME types of the files tried: a bitmap, the bare prefix, the prefix
\* without its slash, the prefix not at the start, a text file, and a file
\* of unknown type (the empty string).
FileTypes ==
  { <<"i", "m", "a", "g", "e", "/", "p", "n", "g">>,
    IMAGE_PREFIX,
    <<"i", "m", "a", "g", "e">>,
    <<"x", "i", "m", "a", "g", "e", "/">>,
    <<"t", "e", "x", "t", "/", "p", "l", "a", "i", "n">>,
    <<>> }

File(name, type) == [name |-> name, type |-> type]

\* What e.dataTransfer.files and e.target.files can hold: nothing, one file,
\* or a second file behind it.
FileLists ==
  {<<>>}
  \cup {<<File("first", t)>> : t \in FileTypes}
  \cup {<<File("first", t), File("second", IMAGE_PREFIX)>> : t \in FileTypes}

MaxSelected == 2

UploadRest ==
  <<coreVars, shapeVars, engineRange, selVars, logVars, coordVars, seoVars,
    fnVars, frameVars>>

\* handleFileSelect without the test of line 17.
handleFileSelectAny(file) == selected' = Append(selected, file)

\* handleFileSelect, lines 16-20.
handleFileSelect(file) ==
  IF startsWith(file.type, IMAGE_PREFIX)
  THEN selected' = Append(selected, file)
  ELSE UNCHANGED selected

\* handleDrop, lines 22-30.
handleDrop(fileList) ==
  /\ isDragging' = FALSE
  /\ IF fileList # <<>> THEN handleFileSelect(fileList[1]) ELSE UNCHANGED selected
  /\ upLast' = [op |-> "drop", files |-> fileList]
  /\ UNCHANGED UploadRest

\* handleDragOver, lines 32-35.
handleDragOver ==
  /\ isDragging' = TRUE
  /\ upLast' = [op |-> "dragover", files |-> <<>>]
  /\ UNCHANGED <<selected, UploadRest>>

\* handleDragLeave, lines 37-39.
handleDragLeave ==
  /\ isDragging' = FALSE
  /\ upLast' = [op |-> "dragleave", files |-> <<>>]
  /\ UNCHANGED <<selected, UploadRest>>

\* handleFileInputChange, lines 41-46.
handleFileInputChange(fileList) ==
  /\ IF fileList # <<>> THEN handleFileSelect(fileList[1]) ELSE UNCHANGED selected
  /\ upLast' = [op |-> "change", files |-> fileList]
  /\ UNCHANGED <<isDragging, UploadRest>>

UploadInit ==
  /\ Parked /\ InIdle /\ OutIdle /\ ShapeIdle /\ engineRange = "none"
  /\ SelIdle /\ LogIdle /\ CoordIdle /\ LaterIdle

UploadNext ==
  \/ Len(selected) < MaxSelected /\ \E fileList \in FileLists : handleDrop(fileList)
  \/ handleDragOver
  \/ handleDragLeave
  \/ Len(selected) < MaxSelected
       /\ \E fileList \in FileLists : handleFileInputChange(fileList)

UploadSpec == UploadInit /\ [][UploadNext]_vars


\* ------------------------------------------------------------- head tags
\* lib/seo.ts.  A URL or a path is the sequence of its parts: the scheme
\* with its colon, "//", the host, "/" and the names between slashes.
SITE_URL == <<"https:", "//", "littlegoat.com.br">>

\* new URL(path, base).toString(), line 72, for a path without scheme or
\* authority and a base without path: the base has the path "/", a path
\* that starts with "/" replaces it and any other path is appended to it.
UrlToString(path, base) ==
  IF path[1] = "/" THEN base \o path ELSE base \o <<"/">> \o path

\* absoluteUrl giving the base for every path.
absoluteUrlOfBase(path) == SITE_URL

\* absoluteUrl, lines 67-73.
absoluteUrl(path) ==
  IF path = <<>> THEN SITE_URL
  ELSE IF \/ startsWith(path, <<"http:", "//">>)
          \/ startsWith(path, <<"https:", "//">>)
       THEN path
       ELSE UrlToString(path, SITE_URL)

\* Lines 75-76.
DEFAULT_IMAGE == absoluteUrl(<<"/", "og-image.png">>)

Str(s) == [kind |-> "string", v |-> s]
Obj(members) == [kind |-> "object", v |-> members]

\* defaultJsonLd, lines 90-121: the members in the order written, without
\* the descriptive texts and the feature list.
defaultJsonLd ==
  << <<"@context", Str("https://schema.org")>>,
     <<"@type", Str("SoftwareApplication")>>,
     <<"name", Str("Watermark Remover")>>,
     <<"image", Str(DEFAULT_IMAGE)>>,
     <<"url", Str(absoluteUrl(<<"/">>))>>,
     <<"applicationCategory", Str("ImageEditingApplication")>>,
     <<"operatingSystem", Str("Web Browser")>>,
     <<"offers", Obj(<< <<"@type", Str("Offer")>>,
                        <<"price", Str("0")>>,
                        <<"priceCurrency", Str("USD")>> >>)>>,
     <<"aggregateRating", Obj(<< <<"@type", Str("AggregateRating")>>,
                                 <<"ratingValue", Str("5")>>,
                                 <<"reviewCount", Str("50")>> >>)>> >>

\* JSON.stringify of an object whose nested objects have no undefined
\* member: the members in order, those with an undefined value left out.
JsonStringify(members) ==
  SelectSeq(members, LAMBDA mb : mb[2].kind # "undefined")

\* JSON.parse of such a text: the object with the keys of the text, each
\* with the value of its last occurrence.
JsonParse(text) ==
  [key \in {text[i][1] : i \in DOMAIN text} |->
     LET last == CHOOSE i \in DOMAIN text :
                   /\ text[i][1] = key
                   /\ \A j \in DOMAIN text : text[j][1] = key => j <= i
     IN text[last][2]]

\* getRootSeo, lines 123-168; of the meta tags, those that carry a URL.
getRootSeo ==
  LET canonical == absoluteUrl(<<"/">>) IN
  [meta |-> << [property |-> "og:url", content |-> canonical],
               [property |-> "og:image", content |-> DEFAULT_IMAGE],
               [property |-> "twitter:url", content |-> canonical],
               [property |-> "twitter:image", content |-> DEFAULT_IMAGE] >>,
   links |-> << [rel |-> "canonical", href |-> canonical],
                [rel |-> "icon", href |-> <<"/", "favicon.ico">>],
                [rel |-> "icon", href |-> <<"/", "favicon-96x96.png">>],
                [rel |-> "apple-touch-icon",
                 href |-> <<"/", "apple-touch-icon.png">>],
                [rel |-> "manifest", href |-> <<"/", "site.webmanifest">>] >>,
   scripts |-> << [type |-> "application/ld+json",
                   children |-> JsonStringify(defaultJsonLd)] >>]

MaxPathLen == 3

RECURSIVE SeqsUpTo(_, _)
SeqsUpTo(S, n) ==
  IF n = 0 THEN {<<>>}
  ELSE LET shorter == SeqsUpTo(S, n - 1)
       IN shorter \cup {Append(s, x) : s \in shorter, x \in S}

\* The paths tried: relative ones of up to MaxPathLen parts, none beginning
\* with two slashes, and the same behind a scheme.
SeoPaths ==
  LET parts == SeqsUpTo({"/", "blog", "a"}, MaxPathLen)
  IN {p \in parts : ~startsWith(p, <<"/", "/">>)}
     \cup {<<s, "//">> \o p : s \in {"http:", "https:"}, p \in parts}

SeoRest ==
  <<coreVars, shapeVars, engineRange, selVars, logVars, coordVars, uploadVars,
    fnVars, frameVars>>

CallAbsoluteUrl(path) ==
  /\ seoCall' = [fn |-> "absoluteUrl", arg |-> path]
  /\ seoOut' = absoluteUrl(path)
  /\ UNCHANGED SeoRest

CallGetRootSeo ==
  /\ seoCall' = [fn |-> "getRootSeo", arg |-> <<>>]
  /\ seoOut' = getRootSeo
  /\ UNCHANGED SeoRest

SeoInit ==
  /\ Parked /\ InIdle /\ OutIdle /\ ShapeIdle /\ engineRange = "none"
  /\ SelIdle /\ LogIdle /\ CoordIdle /\ LaterIdle

SeoNext ==
  \/ \E path \in SeoPaths : CallAbsoluteUrl(path)
  \/ CallGetRootSeo

SeoSpec == SeoInit /\ [][SeoNext]_vars


\* ------------------------------------------- one image after another
MaxImages == 2

\* The page after its mount effect, the model in the cache, with MaxImages
\* files at hand for the user to select, in turn.
ReselectInit ==
  /\ WorkerInit /\ cache = "valid" /\ isDev = FALSE
  /\ imagePreview = 0 /\ imageElement = 0 /\ maskCanvas = 0
  /\ resultUrl = 0 /\ isProcessing = FALSE /\ isLoadingModel = TRUE
  /\ modelProgress = 0 /\ error = "none" /\ processingResolveRef = 0
  /\ files = [f \in 1..MaxImages |-> "none"] /\ usageCalls = 0
  /\ removeCalls = 0
  /\ workerRef = TRUE /\ usageGate = TRUE
  /\ sent = <<[type |-> "load", id |-> 1, img |-> 0, seen |-> 0]>>
  /\ InIdle /\ OutIdle /\ AuxIdle

ReselectNext ==
  \/ WorkerStep
  \/ handleWorkerMessage
  \/ \E f \in 1..MaxImages : handleImageSelect(f)
  \/ \E f \in 1..MaxImages : ReaderOnLoad(f)
  \/ \E f \in 1..MaxImages : ImgOnLoad(f)
  \/ handleMaskChange
  \/ ClickRemove

ReselectSpec == ReselectInit /\ [][ReselectNext]_vars


\* ------------------------------------------- strokes and the redraw frame
\* A new image can be mounted at any moment: index.tsx line 269 runs when
\* the decode of a selected file completes.
FrameImages == {<<800, 600>>, <<640, 480>>}

FrameInit == SelectorInit

FrameNext ==
  \/ \E img \in FrameImages : Mount(img, "bottom-right")
  \/ edits < MaxEdits /\ \E cell \in Cells : handleMouseDown(cell)
  \/ edits < MaxEdits /\ \E cell \in Cells : handleTouchStart(cell)
  \/ \E cell \in Cells : handleMove(cell)
  \/ handleMouseUp
  \/ handleTouchEnd
  \/ FocusTimeout
  \/ handleMouseEnter
  \/ handleMouseLeave
  \/ RedrawFrame

FrameSpec == FrameInit /\ [][FrameNext]_vars


\* ------------------------------------------------ edits up to the limit
\* Strokes fill the history up to FreeFrom edits; from there on presets,
\* Clear All, Undo and Redo come in any order, up to MaxPushes edits, which
\* is past the limit of 50 entries.
MaxPushes == 50
FreeFrom == MaxPushes - 4

CapInit == SelectorInit

CapNext ==
  \/ ~maskCanvasRef /\ \E img \in SelImages : Mount(img, "bottom-right")
  \/ edits < MaxPushes /\ ~isDrawing /\ handleMouseDown(1)
  \/ isDrawing /\ handleMouseUp
  \/ edits >= FreeFrom /\ edits < MaxPushes /\ ~isDrawing /\ clearMask
  \/ /\ edits >= FreeFrom /\ edits < MaxPushes /\ ~isDrawing
     /\ applyPresetMask("center")
  \/ edits >= FreeFrom /\ ~isDrawing /\ UndoButton
  \/ edits >= FreeFrom /\ ~isDrawing /\ RedoButton

CapSpec == CapInit /\ [][CapNext]_vars


\* ------------------------------------------------- the points of a stroke
\* interpolatePoints of hero.tsx (lines 669-682).  Mask coordinates are
\* whole numbers here; a sub-point is <<xn, yn, d>> for (xn / d, yn / d).

\* The squared length of the segment from p1 to p2.
Dist2(p1, p2) ==
  (p2[1] - p1[1]) * (p2[1] - p1[1]) + (p2[2] - p1[2]) * (p2[2] - p1[2])

\* Line 672: Math.max(Math.floor(distance / (size / 4)), 1).  The floor of
\* 4 * distance / size is the largest k with (k * size)^2 <= 16 * distance^2;
\* k * size is then at most 4 * distance^2.
InterpSteps(p1, p2, size) ==
  LET d2 == Dist2(p1, p2)
      ks == {k \in 0..(4 * d2) :
               k * size <= 4 * d2 /\ (k * size) * (k * size) <= 16 * d2}
      floor == CHOOSE k \in ks : \A j \in ks : j <= k
  IN IF floor > 1 THEN floor ELSE 1

\* Lines 674-680: steps + 1 points from p1 to p2, at t = i / steps.
interpolatePoints(p1, p2, size) ==
  LET steps == InterpSteps(p1, p2, size)
  IN [i \in 1..(steps + 1) |->
        <<p1[1] * steps + (p2[1] - p1[1]) * (i - 1),
          p1[2] * steps + (p2[2] - p1[2]) * (i - 1),
          steps>>]

\* Lines 1084-1085: the range of the brush size slider.
BRUSH_SIZE_MIN == 5
BRUSH_SIZE_MAX == 100

InterpXs == {0, 3, 9, 12}
InterpYs == {0, 4}
InterpSizes == {BRUSH_SIZE_MIN, 20, BRUSH_SIZE_MAX}

FnRest ==
  <<coreVars, shapeVars, engineRange, selVars, logVars, coordVars,
    uploadVars, seoVars, frameVars>>

\* drawAt, lines 784-786, with an anchor: the points between it and the
\* new position.
CallInterpolatePoints(p1, p2, size) ==
  /\ fnCall' = [fn |-> "interpolatePoints", p1 |-> p1, p2 |-> p2,
                size |-> size]
  /\ fnOut' = interpolatePoints(p1, p2, size)
  /\ UNCHANGED FnRest

InterpInit == SelectorInit

InterpNext ==
  \E x1 \in InterpXs, y1 \in InterpYs, x2 \in InterpXs, y2 \in InterpYs,
     size \in InterpSizes :
    CallInterpolatePoints(<<x1, y1>>, <<x2, y2>>, size)

InterpSpec == InterpInit /\ [][InterpNext]_vars


\* ------------------------------------------- shortcuts on a touch screen
\* Lines 507-509: a key pressed in an input or a textarea is left alone.
KeyTargets == {"body", "input", "textarea"}
TouchKeys == {"b", "e", "z"}

onKeyDown(target, key) ==
  IF target \in {"input", "textarea"} /\ isFocused
    THEN /\ maskCanvasRef
         /\ lastStep' = Step("key", FALSE, 0)
         /\ UNCHANGED <<editVars, toolVars, isDrawing, focusVars, Others>>
         /\ Log
    ELSE handleKeyDown(key)

\* No mouse: every stroke is a touch, so isDrawing says that a finger is on
\* the canvas.
TouchInit == SelectorInit

TouchNext ==
  \/ \E img \in SelImages : Mount(img, "bottom-right")
  \/ edits < MaxEdits /\ ~isDrawing /\ \E cell \in Cells : handleTouchStart(cell)
  \/ isDrawing /\ \E cell \in Cells : handleMove(cell)
  \/ isDrawing /\ handleTouchEnd
  \/ FocusTimeout
  \/ \E target \in KeyTargets, key \in TouchKeys : onKeyDown(target, key)

TouchSpec == TouchInit /\ [][TouchNext]_vars


\* ------------------------------------------------ the names of the inputs
\* processImage of lib/image-processing.ts, lines 598-604: under which of the
\* session's input names the two tensors are fed.  A name is the sequence of
\* its characters.
UpperToLower ==
  [c \in {"A", "E", "G", "I", "K", "M", "S"} |->
     CASE c = "A" -> "a" [] c = "E" -> "e" [] c = "G" -> "g" [] c = "I" -> "i"
       [] c = "K" -> "k" [] c = "M" -> "m" [] OTHER -> "s"]

\* A name left in the case it has.
keepCase(s) == s

\* String.prototype.toLowerCase.
toLowerCase(s) ==
  [i \in 1..Len(s) |->
     IF s[i] \in DOMAIN UpperToLower THEN UpperToLower[s[i]] ELSE s[i]]

\* String.prototype.includes.
includes(s, sub) ==
  \E i \in 0..(Len(s) - Len(sub)) : SubSeq(s, i + 1, i + Len(sub)) = sub

KW_IMAGE == <<"i", "m", "a", "g", "e">>
KW_MASK == <<"m", "a", "s", "k">>

\* Array.prototype.find with the test of lines 598-599, then the || of the
\* same lines: the first name that holds the keyword, else the name at
\* position fallback (counted from 1 here).
findInput(names, keyword, fallback) ==
  LET hits == {i \in 1..Len(names) : includes(toLowerCase(names[i]), keyword)}
  IN IF hits = {} THEN names[fallback]
     ELSE names[CHOOSE i \in hits : \A j \in hits : i <= j]

imageInputName(names) == findInput(names, KW_IMAGE, 1)
maskInputName(names) == findInput(names, KW_MASK, 2)

\* Lines 601-604: the object literal; with the same key twice the later
\* property, the mask, is the one kept.
feeds(names) ==
  [n \in {imageInputName(names), maskInputName(names)} |->
     IF n = maskInputName(names) THEN "maskTensor" ELSE "imageTensor"]

\* The input names tried.
InputNamePool ==
  { KW_IMAGE,
    <<"I", "m", "a", "g", "e">>,
    KW_MASK,
    <<"M", "A", "S", "K">>,
    <<"m", "a", "s", "k", "e", "d", "_", "i", "m", "a", "g", "e">>,
    <<"x">>,
    <<"y">> }

MaxInputs == 3

\* session.inputNames (line 445): two or more names, no name twice.
InputNameLists ==
  UNION {{s \in [1..n -> InputNamePool] :
            \A i, j \in 1..n : i # j => s[i] # s[j]} : n \in 2..MaxInputs}

CallProcessImageFeeds(names) ==
  /\ fnCall' = [fn |-> "feeds", inputNames |-> names]
  /\ fnOut' = [imageInputName |-> imageInputName(names),
               maskInputName |-> maskInputName(names),
               feeds |-> feeds(names)]
  /\ UNCHANGED FnRest

FeedsInit == SelectorInit

\* One session, one list of names.
FeedsNext ==
  /\ fnCall.fn = "none"
  /\ \E names \in InputNameLists : CallProcessImageFeeds(names)

FeedsSpec == FeedsInit /\ [][FeedsNext]_vars

\* ================================================================== claims
KindTerminals(t) ==
  IF t = "load" THEN {"load-complete", "load-error"}
  ELSE {"process-complete", "process-error"}

\* The responses to request r are of its own kind, at most one is terminal,
\* and its handler has returned exactly when the terminal one is posted.
OneTerminal(r) ==
  /\ Cardinality(Terminals(r)) <= 1
  /\ \A i \in Terminals(r) : termLog[i].type \in KindTerminals(sent[r].type)
  /\ (hpc[r] = "done") <=> (Cardinality(Terminals(r)) = 1)

\* C1: every request sent to the worker gets exactly one terminal response,
\* of its own kind (load-complete or load-error for a load, process-complete
\* or process-error for a process): never two, and again and again every
\* request sent so far has one, also those that follow a failed load or a
\* failed run.
C1_ExactlyOneTerminalResponse ==
  /\ [](\A r \in 1..Len(sent) : OneTerminal(r))
  /\ []<>(\A r \in 1..Len(sent) : Cardinality(Terminals(r)) = 1)

\* C1 witness: a request was answered with an error and a later request was
\* answered after it.
C1_Witness ==
  \E i, j \in 1..Len(termLog) :
    /\ i < j
    /\ termLog[i].type \in {"load-error", "process-error"}
    /\ termLog[i].req < termLog[j].req

Started(r) == hpc[r] # "idle"

\* No handler starts before every earlier handler has returned.
NoOverlap ==
  \A r1, r2 \in 1..Len(sent) : (r1 < r2 /\ Started(r2)) => hpc[r1] = "done"

\* Terminal responses are posted in request order.
ResponsesInOrder ==
  \A i, j \in 1..Len(termLog) : i < j => termLog[i].req < termLog[j].req

\* Every request was posted after the terminal response to the one before.
SerialClient == \A r \in 1..Len(sent) : sent[r].seen = r - 1

\* C2 as stated: the handling of an earlier message, up to its terminal
\* response, finishes before the handling of a later one begins, and the
\* terminal responses are posted in request order.
C2_Original == NoOverlap /\ ResponsesInOrder

\* C2 amended: handlers start one at a time in arrival order; a later one may
\* start while an earlier one is suspended at an await, and when every request
\* is posted only after the terminal response to the previous one, handlings
\* do not overlap and terminal responses are posted in request order.
C2_StartOrderAndSerialClients ==
  /\ \A r1, r2 \in 1..Len(sent) : (r1 < r2 /\ Started(r2)) => Started(r1)
  /\ SerialClient => (NoOverlap /\ ResponsesInOrder)

\* C2 witness: a serial client got two requests handled one after the other.
C2_Witness ==
  /\ SerialClient /\ Len(sent) >= 2
  /\ hpc[1] = "done" /\ hpc[2] = "done"
  /\ \E k \in AttemptIds : loads[k].pc \in {"resolved", "rejected"}

LoadRequests == {r \in 1..Len(sent) : sent[r].type = "load"}

\* The responses posted in a step.
NewResponses == SubSeq(outbox', Len(outbox) + 1, Len(outbox'))

\* In the step that settles attempt k, every caller suspended on its promise
\* gets one response, of type t and value v, and nobody else gets one.
AllAnswered(k, t, v) ==
  /\ Len(NewResponses) = Cardinality(Waiters(k))
  /\ \A r \in Waiters(k) :
       \E i \in 1..Len(NewResponses) : NewResponses[i] = Resp(t, r, v)

\* Callers that shared the promise of one attempt get the same outcome, in
\* the step in which the attempt settles.
SameOutcome ==
  \A k \in AttemptIds :
    (k \in InFlight /\ ~(k \in InFlight')) =>
      \/ session' = k /\ AllAnswered(k, "load-complete", "none")
      \/ session' = 0 /\ AllAnswered(k, "load-error", loads'[k].err)

\* C4: model loading is single-flight: at most one cache-read / download /
\* session-construction sequence is in flight, callers that share a load get
\* the same session or the same failure, and once a session exists no call
\* starts an attempt or touches the cache or the network: it is answered with
\* that session.
C4_SingleFlight ==
  /\ [](Cardinality(InFlight) <= 1)
  /\ [][SameOutcome]_vars
  /\ [](\A r \in LoadRequests : hpc[r] = "awaitLoad" => awaiting[r] \in InFlight)
  /\ [](session # 0 => (InFlight = {} /\ loads[session].pc = "resolved"))
  /\ [][session # 0 =>
          /\ session' = session /\ attempts' = attempts
          /\ network' = network /\ cache' = cache /\ loads' = loads
          /\ (dispatched' # dispatched /\ sent[NextEvent].type = "load") =>
               NewResponses = <<Resp("load-complete", NextEvent, "none")>>
       ]_vars

\* C4 witness: two load requests shared one attempt, it built the session,
\* and both were answered.
C4_Witness ==
  \E r1, r2 \in LoadRequests :
    /\ r1 < r2 /\ awaiting[r1] # 0 /\ awaiting[r1] = awaiting[r2]
    /\ session = awaiting[r1]
    /\ hpc[r1] = "done" /\ hpc[r2] = "done"

Failed(k) == loads[k].pc = "rejected"

\* C5: when a load fails, in that very step the loading promise is cleared,
\* the session stays absent, every caller that shared the load gets the same
\* load-error, and no attempt is started; attempts start only in a loadModel
\* call, and the next call with no session starts a fresh attempt.
C5_FailureClearsAndNextCallRetries ==
  /\ [][\A k \in AttemptIds : (~Failed(k) /\ Failed(k)') =>
          /\ loadingPromise' = 0 /\ session' = 0 /\ attempts' = attempts
          /\ AllAnswered(k, "load-error", loads'[k].err)
       ]_vars
  /\ [](\A k \in AttemptIds : Failed(k) => (loadingPromise # k /\ session # k))
  /\ [][attempts' # attempts =>
          (dispatched' = dispatched + 1 /\ sent[NextEvent].type = "load")]_vars
  /\ [][(dispatched' = dispatched + 1 /\ sent[NextEvent].type = "load"
          /\ session = 0 /\ InFlight = {}) =>
          (attempts' = attempts + 1 /\ loads'[attempts + 1].pc = "cacheRead")
       ]_vars

\* C5 witness: the first attempt failed, its caller got load-error, and a
\* second attempt, started by the next call, built the session.
C5_Witness ==
  /\ Failed(1) /\ session = 2
  /\ \E r \in LoadRequests : awaiting[r] = 1 /\ hpc[r] = "done"

ProcessRequests == {r \in 1..Len(sent) : sent[r].type = "process"}

\* The page has not yet handled a terminal response to request r.
Pending(r) ==
  \/ Terminals(r) = {}
  \/ \E i \in 1..Len(outbox) :
       outbox[i].req = r /\ outbox[i].type \in TerminalTypes

Outstanding == {r \in ProcessRequests : Pending(r)}

\* C3: at most one process request is outstanding (sent and not yet answered
\* to the page by process-complete or process-error); while one is, the
\* processing flag is set and the slot holds it; Remove dispatches only while
\* the flag is clear; and the slot, while it holds a request, changes only by
\* being cleared when that request's terminal response is handled.
C3_AtMostOneOutstanding ==
  /\ [](Cardinality(Outstanding) <= 1)
  /\ [](\A r \in Outstanding : isProcessing /\ processingResolveRef = r)
  /\ [][sent' # sent => (~isProcessing /\ Outstanding = {})]_vars
  /\ [][(processingResolveRef # 0 /\ processingResolveRef' # processingResolveRef)
          => /\ processingResolveRef' = 0
             /\ outbox # <<>> /\ outbox' = Tail(outbox)
             /\ Head(outbox).req = processingResolveRef
             /\ Head(outbox).type \in TerminalTypes
       ]_vars

\* C3 witness: a second process request is outstanding after the first one
\* was answered and handled.
C3_Witness ==
  /\ Cardinality(ProcessRequests) = 2
  /\ Cardinality(Outstanding) = 1
  /\ \E r \in ProcessRequests : ~Pending(r)

\* The page has handled a load-complete response.
LoadCompleteReceived ==
  /\ \E i \in 1..Len(termLog) : termLog[i].type = "load-complete"
  /\ \A j \in 1..Len(outbox) : outbox[j].type # "load-complete"

\* C6 as stated: the page has dispatched a process request only after it
\* received load-complete.
C6_ProcessOnlyAfterLoadComplete == ProcessRequests # {} => LoadCompleteReceived

Invoked == removeCalls' # removeCalls

\* A refused invocation: nothing is sent, no usage is recorded, the
\* processing flag stays false and the result is left as it was.
Refused ==
  /\ sent' = sent /\ outbox' = outbox
  /\ usageCalls' = usageCalls /\ usageGate' = usageGate
  /\ isProcessing = FALSE /\ isProcessing' = FALSE
  /\ processingResolveRef' = processingResolveRef
  /\ resultUrl' = resultUrl

NoInput == imageElement = 0 \/ maskCanvas = 0

NotReady == ~workerRef \/ isLoadingModel

\* C7: an invocation of Remove checks, in this order, that bitmap and mask
\* are present (else the validation error), that the usage gate permits the
\* run (else the rate-limit error), that the worker exists and the model is
\* not loading (else the not-ready error); the first failing check sets its
\* error in that very step and the invocation is refused: no message, no
\* recordUsage, processing flag false, result unchanged.  When all three pass
\* the usage is recorded.
C7_PreconditionOrder ==
  [][Invoked =>
       /\ NoInput => (error' = E_VALIDATION /\ Refused)
       /\ (~NoInput /\ ~usageGate) => (error' = E_RATE_LIMIT /\ Refused)
       /\ (~NoInput /\ usageGate /\ NotReady) => (error' = E_NOT_READY /\ Refused)
       /\ (~NoInput /\ usageGate /\ ~NotReady) => usageCalls' = usageCalls + 1
    ]_vars

\* C7 witness: with bitmap and mask present, the gate closed and the model
\* still loading, Remove was refused with the rate-limit error.
C7_Witness ==
  /\ error = E_RATE_LIMIT
  /\ ~NoInput /\ isLoadingModel /\ ~usageGate
  /\ usageCalls = 0 /\ ProcessRequests = {}

RatEq(a, b) == a.num * b.den = b.num * a.den

AllBlack ==
  \A i \in 0..(NumPixels - 1), c \in 0..2 : mskData[4 * i + c] = 0

AllWhite ==
  \A i \in 0..(NumPixels - 1), c \in 0..2 : mskData[4 * i + c] = 255

\* C9: for every pixel the loop has built, the mask tensor is 1 exactly when
\* the mask's red byte is above 127 (127 gives 0, 128 gives 1); the image
\* tensor's three channel values are 0 where the mask tensor is 1 and the
\* source byte over 255 where it is 0; the two counters count the two kinds
\* of pixel.  So after the loop an all-black mask has zeroed nothing and
\* counts no foreground pixel, and an all-white mask leaves only zeros.
C9_MaskedInputTensors ==
  /\ \A i \in 0..(inIdx - 1) :
       LET red == mskData[4 * i] IN
         /\ (maskTensorData[i] = One) <=> (red > 127)
         /\ (maskTensorData[i] = Zero) <=> (red <= 127)
         /\ \A c \in 0..2 :
              LET t == imageTensorData[i + c * NumPixels] IN
                IF maskTensorData[i] = One THEN RatEq(t, Zero)
                ELSE RatEq(t, Rat(imgData[4 * i + c], 255))
  /\ whiteCount = Cardinality({i \in 0..(inIdx - 1) : mskData[4 * i] > 127})
  /\ blackCount = inIdx - whiteCount
  /\ (inIdx = NumPixels /\ AllBlack) =>
       /\ whiteCount = 0
       /\ \A i \in 0..(NumPixels - 1), c \in 0..2 :
            RatEq(imageTensorData[i + c * NumPixels],
                  Rat(imgData[4 * i + c], 255))
  /\ (inIdx = NumPixels /\ AllWhite) =>
       \A j \in 0..(3 * NumPixels - 1) : RatEq(imageTensorData[j], Zero)

\* C9 witness: the loop is through a mask with a pixel of red 127 over a
\* bright image pixel and a pixel of red 128.
C9_Witness ==
  /\ inIdx = NumPixels
  /\ \E i, j \in 0..(NumPixels - 1) :
       /\ mskData[4 * i] = 127 /\ imgData[4 * i] = 255
       /\ mskData[4 * j] = 128 /\ imgData[4 * j] = 255

\* The remapping the sampled range selects: "halve" for (v+1)/2, "divide"
\* for v/255, "keep" for v unchanged.
Mode ==
  IF 10 * minVal >= -11 * Scale /\ 10 * minVal < -1 * Scale
     /\ 10 * maxVal <= 11 * Scale
  THEN "halve"
  ELSE IF 10 * maxVal > 11 * Scale /\ 2 * maxVal <= 511 * Scale
  THEN "divide"
  ELSE "keep"

\* b is x clamped to [0, 255] and rounded to the nearest integer, halves up,
\* where x is n/d times 255.
IsByteOf(b, n, d) ==
  /\ b \in 0..255
  /\ 255 * n < 0 => b = 0
  /\ 255 * n > 255 * d => b = 255
  /\ (255 * n >= 0 /\ 255 * n <= 255 * d) =>
       (2 * d * b <= 2 * 255 * n + d /\ 2 * 255 * n + d < 2 * d * (b + 1))

\* C10: once the range is sampled, minVal and maxVal are the least and the
\* greatest sampled value; exactly one remapping is selected from them
\* (min -1 and max 1: (v+1)/2; min 0 and max 255: v/255; min 0 and max 1:
\* unchanged); every value of every converted pixel is remapped by it,
\* scaled by 255, clamped to [0, 255] and rounded; alpha is 255.
C10_RangeDetection ==
  outPc = "loop" =>
    /\ minVal \in Sample /\ maxVal \in Sample
    /\ \A v \in Sample : minVal <= v /\ v <= maxVal
    /\ (minVal = -1 * Scale /\ maxVal = Scale) => Mode = "halve"
    /\ (minVal = 0 /\ maxVal = 255 * Scale) => Mode = "divide"
    /\ (minVal = 0 /\ maxVal = Scale) => Mode = "keep"
    /\ \A i \in 0..(outIdx - 1) :
         /\ outPixels[4 * i + 3] = 255
         /\ \A c \in 0..2 :
              LET d == outData[i + c * NumPixels]
                  b == outPixels[4 * i + c]
              IN CASE Mode = "halve" -> IsByteOf(b, d + Scale, 2 * Scale)
                   [] Mode = "divide" -> IsByteOf(b, d, 255 * Scale)
                   [] OTHER -> IsByteOf(b, d, Scale)

\* C10 witness: a tensor sampled with min 0 and max 1 was converted
\* unchanged, its 0.5 giving 128 and its 300 clamped to 255.
C10_Witness ==
  /\ outPc = "loop" /\ outIdx = NumPixels
  /\ minVal = 0 /\ maxVal = Scale
  /\ \E j \in 0..(NumPixels - 1) :
       /\ outData[j + NumPixels] = 8 /\ outPixels[4 * j + 1] = 128
       /\ outData[j + 2 * NumPixels] = 4800 /\ outPixels[4 * j + 2] = 255

\* C11 as stated: a call with a shape other than [1, 3, 512, 512] has failed
\* as soon as its shape was looked at, and has created no surface.
C11_WrongShapeFailsFirst ==
  (tsPc \notin {"idle", "call"} /\ tsDims # <<1, 3, 512, 512>>) =>
    (tsPc = "thrown" /\ tsSurfaces = <<>>)

\* C12: what a tensorToImageData call that succeeded returns has the width
\* and the height the process message gave as originalWidth and
\* originalHeight, whether they are below, at or above the model's 512.
C12_ResultHasOriginalSize ==
  (tsFn = "tensorToImageData" /\ tsPc = "done") =>
    /\ tsResult = <<tsMsg.originalWidth, tsMsg.originalHeight>>
    /\ tsResult[1] >= 1 /\ tsResult[2] >= 1

\* C12 witness: a 1000 x 1 original, wider and lower than the model's input,
\* came back from the worker's conversion.
C12_Witness ==
  /\ tsFn = "tensorToImageData" /\ tsPc = "done"
  /\ tsMsg = [originalWidth |-> 1000, originalHeight |-> 1]
  /\ tsDims = <<1, 3, 512, 512>>

\* C13 as stated: every converted pixel of the result that the mask does not
\* select has the bytes of the source image.
C13_OutsideMaskUnchanged ==
  (outPc = "loop" /\ engineRange # "none") =>
    \A i \in 0..(outIdx - 1) :
      mskData[4 * i] <= 127 =>
        \A c \in 0..2 : outPixels[4 * i + c] = imgData[4 * i + c]

\* C14: from a blank mask, applying the bottom-right preset and then Undo
\* gives the blank mask back, and Redo after that gives back the mask the
\* preset left, the preset being applied by applyPresetMask.
C14_PresetUndoRedo ==
  (/\ Len(trail) = 3
   /\ trail[1].op = "preset" /\ trail[1].arg = "bottom-right"
   /\ trail[1].before = Blank
   /\ trail[2].op = "undo" /\ trail[3].op = "redo") =>
    /\ trail[2].after = Blank
    /\ trail[3].after = trail[1].after

\* C15: the mount effect leaves a history of two entries, the blank mask and
\* then the mask with the preset, the cursor on the second; an Undo right
\* after it gives the blank mask, a Redo after that the preset mask again.
C15_MountSeedsTwoEntries ==
  /\ lastStep.op = "mount" =>
       /\ history = <<Blank, mask>>
       /\ historyIndex = 1
       /\ mask.dots = {} /\ Cardinality(mask.rects) = 1
  /\ \A k \in 1..(Len(trail) - 1) :
       (trail[k].op = "mount" /\ trail[k + 1].op = "undo") =>
         /\ trail[k + 1].after = Blank
         /\ (k + 2 <= Len(trail) /\ trail[k + 2].op = "redo") =>
              trail[k + 2].after = trail[k].after

C15_Witness ==
  /\ Len(trail) = 3
  /\ trail[1].op = "mount" /\ trail[2].op = "undo" /\ trail[3].op = "redo"
  /\ trail[2].after = Blank
  /\ mask = trail[1].after /\ mask # Blank

\* The dots on the mask after n strokes of StrokeSpec.
DotsAfter(n) == 1..n

\* C16 as stated: after 60 strokes the history holds 50 entries, 10 entries
\* were evicted, and the cursor is on the last entry.
C16_Original ==
  (edits = 60 /\ ~isDrawing) =>
    /\ Len(history) = 50
    /\ evicted = 10
    /\ historyIndex = Len(history) - 1

\* C16: after 60 strokes following the mount the history holds 50 entries
\* with the cursor on the last; 12 entries were evicted, the two seeded on
\* mount and the snapshots of the first 10 strokes; entry j is the mask as it
\* was before stroke 10 + j.
C16_SixtyStrokesKeepFifty ==
  (edits = 60 /\ ~isDrawing) =>
    /\ Len(history) = 50
    /\ evicted = 12
    /\ historyIndex = Len(history) - 1
    /\ \A j \in 1..Len(history) : history[j].dots = DotsAfter(9 + j)
    /\ mask.dots = DotsAfter(60)

C16_Witness ==
  /\ edits = 60 /\ ~isDrawing
  /\ lastStep.op \in {"mouseup", "touchend", "mouseleave"} /\ lastStep.edit
  /\ Len(history) = 50

\* C17: Undo with the cursor on the first entry and Redo with the cursor on
\* the last entry leave the mask, the history and the cursor as they were
\* and do not call onMaskChange.
C17_UndoRedoAtTheEnds ==
  [][/\ (lastStep'.op = "undo" /\ historyIndex <= 0) =>
          /\ UNCHANGED <<mask, history, historyIndex>>
          /\ lastStep'.calls = 0
     /\ (lastStep'.op = "redo" /\ historyIndex >= Len(history) - 1) =>
          /\ UNCHANGED <<mask, history, historyIndex>>
          /\ lastStep'.calls = 0]_vars

C17_Witness ==
  /\ lastStep = Step("undo", FALSE, 0)
  /\ maskCanvasRef /\ isFocused
  /\ historyIndex = 0 /\ Len(history) = 2 /\ mask = Blank

\* C18: a handler that commits an edit of the mask (the mount, a stroke
\* ended by pointer up, touch end or the pointer leaving the canvas, a
\* preset, Clear All, an Undo or Redo that moves the cursor) calls
\* onMaskChange.
C18_CallbackAfterEveryEdit == lastStep.edit => lastStep.calls >= 1

\* C19: setting the overlay opacity, the brush size, the quick-mask size or
\* the active tool, by the sliders and buttons or by the keys, leaves the
\* mask, the history entries and the cursor as they were.
C19_SettingsLeaveTheMask ==
  [][lastStep'.op \in {"set", "key"} =>
       UNCHANGED <<mask, history, historyIndex>>]_vars

C19_Witness ==
  /\ lastStep.op = "set"
  /\ maskOpacity = 100 /\ maskSize = 40 /\ brushSize = 85
  /\ activeTool = "eraser"
  /\ edits = 1 /\ Len(history) = 3 /\ mask # Blank

\* C20: on a canvas of width W and height H, with the quick-mask size P
\* between 5 and 40, the center preset fills a rectangle of width W*P/100
\* and height H*P/100 whose centre is (W/2, H/2).
C20_CenterPresetGeometry ==
  (lastStep.op = "preset" /\ lastStep.arg = "center") =>
    /\ maskSize \in MASK_SIZE_MIN..MASK_SIZE_MAX
    /\ \E r \in mask.rects \ history[historyIndex + 1].rects :
         /\ 100 * r.w = Sub * canvasSize[1] * maskSize
         /\ 100 * r.h = Sub * canvasSize[2] * maskSize
         /\ 2 * r.x + r.w = Sub * canvasSize[1]
         /\ 2 * r.y + r.h = Sub * canvasSize[2]

C20_Witness ==
  /\ lastStep.op = "preset" /\ lastStep.arg = "center"
  /\ canvasSize = <<1000, 7>> /\ maskSize = 33
  /\ Cardinality(mask.rects) = 2

\* C21: an event at the displayed top-left corner of the canvas maps to the
\* point (0, 0), one at the displayed bottom-right corner to
\* (canvas.width, canvas.height), wherever the canvas is on the screen at
\* the time of the event and whatever its displayed size.
C21_CornersMapToCorners ==
  /\ coords.at = "top-left" => (coords.xn = 0 /\ coords.yn = 0)
  /\ coords.at = "bottom-right" =>
       /\ coords.xn = intrinsic[1] * coords.xd
       /\ coords.yn = intrinsic[2] * coords.yd

Downloading(k) == loads[k].pc \in {"fetch", "read"}

C23_CacheFailureNotFatal ==
  \A k \in AttemptIds : loads[k].pc = "rejected" => loads[k].err # IDB_ERROR


\* The runs the worker answered with process-complete.
SucceededRuns == {i \in DOMAIN termLog : termLog[i].type = "process-complete"}

\* C24 as stated: the usage record is updated only after a successful run,
\* so it never counts more runs than have succeeded; a run that failed, or
\* has not been answered yet, is not in it.
C24_UsageOnlyAfterSuccess == usageCalls <= Cardinality(SucceededRuns)


\* The type begins with the six characters of "image/".
IsImageType(t) == Len(t) >= 6 /\ \A i \in 1..6 : t[i] = IMAGE_PREFIX[i]

\* C25: a drop or a change of the file input calls onImageSelect, once and
\* with the first file itself, if and only if there is a first file and its
\* MIME type begins with "image/"; otherwise no call is made; and after
\* every drop and every drag-leave the dragging-over flag is false.
C25_ImagesOnly ==
  [][/\ upLast'.op \in {"drop", "change"} =>
          IF upLast'.files # <<>> /\ IsImageType(upLast'.files[1].type)
          THEN selected' = selected \o <<upLast'.files[1]>>
          ELSE selected' = selected
     /\ upLast'.op \in {"dragover", "dragleave"} => selected' = selected
     /\ upLast'.op \in {"drop", "dragleave"} => ~isDragging']_vars

\* A drop of two files handed over the first, a bitmap, and only it, and
\* left the flag cleared.
C25_Witness ==
  /\ upLast.op = "drop" /\ ~isDragging
  /\ Len(upLast.files) = 2
  /\ selected = <<upLast.files[1]>>
  /\ IsImageType(upLast.files[1].type) /\ Len(upLast.files[1].type) = 9


Canonicals == SelectSeq(seoOut.links, LAMBDA l : l.rel = "canonical")

JsonLdScripts ==
  SelectSeq(seoOut.scripts, LAMBDA s : s.type = "application/ld+json")

OneSoftwareApplication ==
  /\ Len(JsonLdScripts) = 1
  /\ JsonParse(JsonLdScripts[1].children)["@type"] = Str("SoftwareApplication")

\* C26 as stated: the canonical link of getRootSeo() has the site base URL
\* as its href, and there is exactly one JSON-LD script, of @type
\* SoftwareApplication.
C26_Original ==
  seoCall.fn = "getRootSeo" =>
    /\ Len(Canonicals) = 1 /\ Canonicals[1].href = SITE_URL
    /\ OneSoftwareApplication

\* C26: the canonical link of getRootSeo() has as its href the site base URL
\* followed by the path "/", and there is exactly one JSON-LD script, whose
\* parsed content has @type SoftwareApplication; and absoluteUrl gives the
\* base URL itself for the empty path only.
C26_CanonicalIsBaseWithSlash ==
  /\ seoCall.fn = "getRootSeo" =>
       /\ Len(Canonicals) = 1 /\ Canonicals[1].href = SITE_URL \o <<"/">>
       /\ OneSoftwareApplication
  /\ seoCall.fn = "absoluteUrl" => (seoOut = SITE_URL <=> seoCall.arg = <<>>)

C26_Witness ==
  /\ seoCall.fn = "getRootSeo"
  /\ Len(seoOut.links) = 5 /\ Len(seoOut.scripts) = 1
  /\ Len(seoOut.scripts[1].children) = 9


\* C27 as stated: an Undo that follows an edit (here a preset or Clear All)
\* leaves the mask as it was just before that edit.
C27_UndoRestoresPreEdit ==
  \A k \in 1..(Len(trail) - 1) :
    (trail[k].op \in {"preset", "clear"} /\ trail[k + 1].op = "undo") =>
      trail[k + 1].after = trail[k].before

\* C28 as stated: an Undo that moves the cursor (one right after the mount
\* or an edit), followed at once by Redo, leaves the mask as it was before
\* the Undo.
C28_RedoInvertsUndo ==
  \A k \in 1..(Len(trail) - 2) :
    (/\ trail[k].op \in {"mount", "preset", "clear"}
     /\ trail[k + 1].op = "undo" /\ trail[k + 2].op = "redo") =>
      trail[k + 2].after = trail[k + 1].before


\* C29 as stated: when a stroke has ended (pointer up, touch end, or the
\* pointer leaving the canvas while drawing) drawing has stopped and the
\* history entry under the cursor is the mask with the stroke on it.
C29_StrokeEndPushesCommittedMask ==
  (lastStep.op \in {"mouseup", "touchend", "mouseleave"} /\ lastStep.edit) =>
    /\ ~isDrawing
    /\ history[historyIndex + 1] = mask


\* C30 as stated: the result on display, when there is one, was computed
\* from the image the page holds now.
C30_ResultOfCurrentImage == resultUrl # 0 => resultUrl = imageElement


\* C31 as stated: once every selected file has been read and decoded, in
\* whatever order, the preview and the bitmap of the page are both those of
\* the file selected last.
C31_LatestSelectionWins ==
  (\A f \in DOMAIN files : files[f] = "done") =>
    /\ imagePreview = Len(files)
    /\ imageElement = Len(files)


\* C32 as stated: the pending-redraw flag is set exactly while a redraw
\* frame callback is scheduled; it never stays set without one.
C32_FlagExactlyWhileScheduled == needsRedraw = rafScheduled

\* C33 as stated: the drawing flag and the anchor are clear whenever a new
\* image is mounted, and no point is painted on a mounted mask before a
\* pointer-down pushed the history.
C33_StrokeOnlyAfterDown ==
  /\ lastStep.op = "mount" => ~isDrawing /\ lastPoint = 0
  /\ mask.dots # {} => edits > 0


\* C34: a new edit (stroke, preset, Clear All) drops every history entry past
\* the cursor before it appends: the entries ahead of the new one are the
\* entries up to the old cursor, the cursor is on the last entry and Redo
\* has nothing to restore.
C34_NewEditTruncatesRedo ==
  [][edits' = edits + 1 =>
       LET kept == SubSeq(history, 1, historyIndex + 1)
           n == Len(history') - 1
       IN /\ n <= Len(kept)
          /\ SubSeq(history', 1, n) = SubSeq(kept, Len(kept) - n + 1, Len(kept))
          /\ historyIndex' = Len(history') - 1
          /\ ~canRedo']_vars

\* A stroke started after an Undo: the undone entry is gone.
C34_Witness ==
  /\ lastStep.op \in {"mousedown", "touchstart", "preset", "clear"}
  /\ edits = 2 /\ Len(history) = 3 /\ historyIndex = 2


\* C35: once an image is mounted, whatever strokes, presets, Clear All, Undo
\* and Redo follow, the history holds between 1 and 50 snapshots and the
\* cursor is an index into it; an edit made with 50 snapshots up to the
\* cursor evicts the oldest one.
C35_HistoryWithinLimit ==
  [][/\ maskCanvasRef' =>
          /\ 1 <= Len(history') /\ Len(history') <= HISTORY_LIMIT
          /\ 0 <= historyIndex' /\ historyIndex' <= Len(history') - 1
     /\ (edits' = edits + 1 /\ historyIndex + 1 = HISTORY_LIMIT) =>
          history' = Append(Tail(SubSeq(history, 1, historyIndex + 1)), mask)
    ]_vars

\* The history overflowed, and the cursor was moved back afterwards.
C35_Witness ==
  /\ evicted > 0 /\ Len(history) = HISTORY_LIMIT
  /\ lastStep.op = "undo" /\ lastStep.edit


\* C36 as stated: consecutive sub-points of interpolatePoints are at most a
\* quarter of the brush diameter apart: 16 * spacing^2 <= size^2.
C36_SpacingQuarterDiameter ==
  fnCall.fn = "interpolatePoints" =>
    \A i \in 1..(Len(fnOut) - 1) :
      16 * Dist2(fnOut[i], fnOut[i + 1]) <=
        fnCall.size * fnCall.size * fnOut[i][3] * fnOut[i][3]


\* C37 as stated: the focus flag, without which no shortcut acts, stays set
\* for the whole of a touch interaction, one that starts within the delay
\* after the previous touch ended included.
C37_FocusedWhileTouching == isDrawing => isFocused


\* The names of InputNamePool that hold "image", and those that hold "mask",
\* in whatever case.
C38_ImageNames ==
  { <<"i", "m", "a", "g", "e">>, <<"I", "m", "a", "g", "e">>,
    <<"m", "a", "s", "k", "e", "d", "_", "i", "m", "a", "g", "e">> }

C38_MaskNames ==
  { <<"m", "a", "s", "k">>, <<"M", "A", "S", "K">>,
    <<"m", "a", "s", "k", "e", "d", "_", "i", "m", "a", "g", "e">> }

\* The first name of names that is in set, or the name at position fallback.
C38_FirstIn(names, set, fallback) ==
  IF \E i \in 1..Len(names) : names[i] \in set
    THEN names[CHOOSE i \in 1..Len(names) :
                 /\ names[i] \in set
                 /\ \A j \in 1..(i - 1) : names[j] \notin set]
    ELSE names[fallback]

C39_TwoDistinctFeeds ==
  (fnCall.fn = "feeds" /\ Len(fnCall.inputNames) = 2) =>
    /\ fnOut.imageInputName # fnOut.maskInputName
    /\ DOMAIN fnOut.feeds = {fnCall.inputNames[1], fnCall.inputNames[2]}


\* Whether r sits where the preset at position puts a rectangle of its size
\* on a canvas of W by H: pad from the edges it is anchored to, centred along
\* the others.  Lengths in units of 1 / Sub pixel.
C40_Placed(r, position, W, H) ==
  LET pad == (Sub * Min(W, H)) \div 50
  IN /\ 50 * pad = Sub * Min(W, H)
     /\ CASE position \in {"bottom-right", "top-right"} ->
               r.x + r.w + pad = Sub * W
          [] position \in {"bottom-left", "top-left"} -> r.x = pad
          [] OTHER -> 2 * r.x + r.w = Sub * W
     /\ CASE position \in {"bottom-right", "bottom-left", "bottom-center"} ->
               r.y + r.h + pad = Sub * H
          [] position \in {"top-right", "top-left"} -> r.y = pad
          [] OTHER -> 2 * r.y + r.h = Sub * H

\* C40 as stated: the rectangle of a preset has the configured percentage of
\* the smaller side of the canvas as its size, and is inset by 2% of the
\* smaller side from the edges it is anchored to.
C40_Original ==
  lastStep.op = "preset" =>
    \E r \in mask.rects :
      /\ 100 * r.w = Sub * Min(canvasSize[1], canvasSize[2]) * maskSize
      /\ 100 * r.h = Sub * Min(canvasSize[1], canvasSize[2]) * maskSize
      /\ C40_Placed(r, lastStep.arg, canvasSize[1], canvasSize[2])

\* C40: the rectangle of a preset is the configured percentage (5 to 40) of
\* the canvas width wide and the same percentage of the canvas height high;
\* the preset stamped on mount is 7% of each.  A corner or edge preset is
\* inset from the edges it is anchored to by 2% of the smaller side of the
\* canvas.
C40_PresetSizeAndInset ==
  /\ lastStep.op = "preset" =>
       /\ maskSize \in MASK_SIZE_MIN..MASK_SIZE_MAX
       /\ \E r \in mask.rects :
            /\ 100 * r.w = Sub * canvasSize[1] * maskSize
            /\ 100 * r.h = Sub * canvasSize[2] * maskSize
            /\ C40_Placed(r, lastStep.arg, canvasSize[1], canvasSize[2])
  /\ lastStep.op = "mount" =>
       \E r \in mask.rects :
         /\ 100 * r.w = Sub * canvasSize[1] * 7
         /\ 100 * r.h = Sub * canvasSize[2] * 7
         /\ C40_Placed(r, "bottom-right", canvasSize[1], canvasSize[2])

\* An edge preset at the largest size on a canvas far from square.
C40_Witness ==
  /\ lastStep.op = "preset" /\ lastStep.arg = "bottom-center"
  /\ canvasSize = <<1000, 7>> /\ maskSize = MASK_SIZE_MAX
  /\ Cardinality(mask.rects) = 2

====
